---- MODULE Spec2Model ----
(***************************************************************************)
(* State-machine model of the 8-layer reconciliation engine                *)
(* run_8_layer_reconciliation of gst_reconciliation_pro.py.                *)
(*                                                                         *)
(* Text cells (Python str) are TLA+ strings; Chars gives the characters of *)
(* a text and Str builds the text of a character sequence, so that the     *)
(* normalisers are computed character by character as the code does.       *)
(* An amount cell holds a decimal number of hundredths; the amounts the     *)
(* engine computes with are Python floats, kept exactly (see Float).  A    *)
(* blank / NaN cell is the empty text.                                     *)
(***************************************************************************)
EXTENDS Integers, Sequences, FiniteSets, TLC

\* ------------------------------------------------------------------ bounds
\* Largest number of rows of the source (CIS) table.
MaxCIS == 2
\* Largest number of rows of the reference (GSTR-2B) table.
MaxG2B == 2
\* Largest number of rows of either table in a call with an incomplete
\* field mapping.
MaxMapRows == 1
\* Largest number of rows of either table in a call whose layer 7 depends on
\* the similarity import.
MaxEnvRows == 2
\* Largest number of source rows in a call whose rows differ in their dates.
MaxDateRows == 3
\* Largest number of rows of either table in a call on two registrations of
\* one PAN.
MaxPanRows == 2
\* Largest number of rows of either table in a call on an invoice the
\* reference table has in two entries.
MaxRevRows == 2
\* Largest number of reference rows in a call layer 7 decides.
MaxFuzzyRows == 3
\* Largest number of rows of either table in a call on the invoice numbers
\* of the Help tab's Layer 7 example.
MaxTypoRows == 2
\* Largest number of rows of either table in a call on records without a
\* supplier id.
MaxNoGstinRows == 2
\* Largest number of rows of either table in a call whose high tolerance
\* is above, or below, its standard tolerance.
MaxHighRows == 2
\* Largest number of rows of either table in a call on an invoice whose
\* reference entries are a large one and a small one.
MaxClubRows == 2
\* Largest number of rows of either table in a call on one invoice number
\* under two suppliers.
MaxOrderRows == 2
\* Largest number of source rows in a run started with either checkbox of
\* the sidebar; the reference table has up to one row more.
MaxSwitchRows == 2

\* ------------------------------------------------------- program constants
\* Length of the PAN prefix of a GSTIN.
PanLen == 10
\* A key shorter than this is absent for layers 1-6.
MinKeyLen == 2
\* Layer 7 skips an invoice key shorter than this.
MinFuzzyLen == 3
\* Layer 7 needs a similarity strictly above this.
FuzzyThreshold == 85
\* get_last_4 keeps this many trailing digits.
Last4Len == 4
\* INDEX of reference row i (0-based) is i + G2BIndexBase.
G2BIndexBase == 100000
\* Statutory cutoff 2024-03-31 as year, month, day.
CutoffYear == 2024
CutoffMonth == 3
CutoffDay == 31
\* A binary64 float has 52 stored mantissa bits.
MantissaBits == 52
\* The representation error of a float is kept in units of 2^-ErrBits
\* hundredths; the floats kept are those from 2^MinExp up to 2^(MaxExp + 1).
ErrBits == 60
MinExp == -8
MaxExp == 14

\* ------------------------------------------------------------- characters
Digits == {"0", "1", "2", "3", "4", "5", "6", "7", "8", "9"}

LowerCase == << "a", "b", "c", "d", "e", "f", "g", "h", "i", "j", "k", "l", "m",
                "n", "o", "p", "q", "r", "s", "t", "u", "v", "w", "x", "y", "z" >>

UpperCase == << "A", "B", "C", "D", "E", "F", "G", "H", "I", "J", "K", "L", "M",
                "N", "O", "P", "Q", "R", "S", "T", "U", "V", "W", "X", "Y", "Z" >>

\* string.punctuation + ' ', the characters TRANS_TABLE deletes (the double
\* quote, the backslash and the backquote are left out of the alphabet).
TRANS_TABLE == { "!", "#", "$", "%", "&", "'", "(", ")", "*", "+", ",", "-",
                 ".", "/", ":", ";", "<", "=", ">", "?", "@", "[", "]", "^",
                 "_", "{", "|", "}", "~", " " }

\* Printable ASCII in code-point order: the order Python compares str by.
Ascii == << " ", "!", "#", "$", "%", "&", "'", "(", ")", "*", "+", ",", "-",
            ".", "/", "0", "1", "2", "3", "4", "5", "6", "7", "8", "9", ":", ";",
            "<", "=", ">", "?", "@", "A", "B", "C", "D", "E", "F", "G", "H", "I",
            "J", "K", "L", "M", "N", "O", "P", "Q", "R", "S", "T", "U", "V", "W",
            "X", "Y", "Z", "[", "]", "^", "_", "a", "b", "c", "d", "e",
            "f", "g", "h", "i", "j", "k", "l", "m", "n", "o", "p", "q", "r", "s",
            "t", "u", "v", "w", "x", "y", "z", "{", "|", "}", "~" >>

Ord(c) == CHOOSE i \in 1..Len(Ascii) : Ascii[i] = c

\* str.upper() on one character.
Upper(c) ==
    IF \E i \in 1..Len(LowerCase) : LowerCase[i] = c
    THEN UpperCase[CHOOSE i \in 1..Len(LowerCase) : LowerCase[i] = c]
    ELSE c

\* ------------------------------------------------- character sequences
RECURSIVE Str(_)
Str(q) == IF q = <<>> THEN "" ELSE Head(q) \o Str(Tail(q))

RECURSIVE Filter(_, _)
\* The characters of q that are in the set keep, in order.
Filter(q, keep) ==
    IF q = <<>> THEN <<>>
    ELSE IF Head(q) \in keep THEN <<Head(q)>> \o Filter(Tail(q), keep)
         ELSE Filter(Tail(q), keep)

RECURSIVE Remove(_, _)
\* The characters of q that are not in the set drop, in order.
Remove(q, drop) ==
    IF q = <<>> THEN <<>>
    ELSE IF Head(q) \in drop THEN Remove(Tail(q), drop)
         ELSE <<Head(q)>> \o Remove(Tail(q), drop)

RECURSIVE LStrip(_, _)
\* str.lstrip(chars).
LStrip(q, chars) ==
    IF q # <<>> /\ Head(q) \in chars THEN LStrip(Tail(q), chars) ELSE q

RECURSIVE RStrip(_, _)
\* str.rstrip(chars).
RStrip(q, chars) ==
    IF q # <<>> /\ q[Len(q)] \in chars THEN RStrip(SubSeq(q, 1, Len(q) - 1), chars)
    ELSE q

UpperSeq(q) == [i \in 1..Len(q) |-> Upper(q[i])]

RECURSIVE SeqLess(_, _)
\* Python str < str (lexicographic by code point).
SeqLess(a, b) ==
    IF b = <<>> THEN FALSE
    ELSE IF a = <<>> THEN TRUE
    ELSE IF Head(a) = Head(b) THEN SeqLess(Tail(a), Tail(b))
    ELSE Ord(Head(a)) < Ord(Head(b))

RECURSIVE ToNum(_)
\* int() of a sequence of digits.
ToNum(q) == IF q = <<>> THEN 0
            ELSE 10 * ToNum(SubSeq(q, 1, Len(q) - 1))
                 + (CHOOSE n \in 0..9 : Ascii[Ord("0") + n] = q[Len(q)])

RECURSIVE Split(_, _)
\* str.split(sep) for a one-character separator.
Split(q, sep) ==
    IF \E i \in 1..Len(q) : q[i] = sep
    THEN LET i == CHOOSE i \in 1..Len(q) : q[i] = sep /\ \A j \in 1..(i - 1) : q[j] # sep
         IN  <<SubSeq(q, 1, i - 1)>> \o Split(SubSeq(q, i + 1, Len(q)), sep)
    ELSE <<q>>

Min(a, b) == IF a < b THEN a ELSE b

\* ------------------------------------------------------ float arithmetic
\* An amount is a Python float (IEEE binary64).  The float x is kept exactly
\* as the record [n, c] with 100 * x = n + c / 2^ErrBits: n is the amount in
\* hundredths as written in decimal, c the representation error, which is
\* what a float comparison at a boundary turns on.  Every float from 2^MinExp
\* up to 2^(MaxExp + 1) is such a record, and so is every difference of two.
Float(n, c) == [n |-> n, c |-> c]

\* (2^j) % 200, by doubling.
Pow2Mod200 ==
    LET F[j \in 0..(MantissaBits + ErrBits)] == IF j = 0 THEN 1 ELSE (2 * F[j - 1]) % 200
    IN  [j \in 0..(MantissaBits + ErrBits) |-> F[j]]

\* Whether x >= 2^e, for x >= 0.
AtLeastPow2(x, e) ==
    IF e >= 0 THEN x.n > 100 * 2^e \/ (x.n = 100 * 2^e /\ x.c >= 0)
    ELSE x.n * 2^(-e) > 100 \/ (x.n * 2^(-e) = 100 /\ x.c >= 0)

\* The binary exponent of x >= 2^MinExp.
Exponent(x) ==
    CHOOSE e \in MinExp..MaxExp :
        AtLeastPow2(x, e) /\ (e = MaxExp \/ ~ AtLeastPow2(x, e + 1))

\* The float nearest to the real number x >= 0 (round to nearest, ties to
\* even): the rounding every float operation ends with.  Below 2^MinExp the
\* numbers met are floats already.
RoundToFloat(x) ==
    IF ~ AtLeastPow2(x, MinExp) THEN x
    ELSE LET e == Exponent(x)
             k == ErrBits - MantissaBits + e
             ulp == 100 * 2^k
             \* (n * 2^ErrBits + c) % (2 * ulp)
             r == (2^k * (((x.n % 200) * Pow2Mod200[MantissaBits - e]) % 200) + x.c)
                  % (2 * ulp)
             low == r % ulp
             up == \/ 2 * low > ulp
                   \/ 2 * low = ulp /\ r >= ulp
         IN  IF up THEN Float(x.n, x.c + (ulp - low)) ELSE Float(x.n, x.c - low)

\* float(text) of an amount written with two decimals, n hundredths.
FromHundredths(n) == RoundToFloat(Float(n, 0))

\* a + b on floats >= 0.
FAdd(a, b) == RoundToFloat(Float(a.n + b.n, a.c + b.c))

\* abs(a - b) on floats.
FAbsDiff(a, b) ==
    LET n == a.n - b.n
        c == a.c - b.c
    IN  IF n < 0 \/ (n = 0 /\ c < 0) THEN RoundToFloat(Float(-n, -c))
        ELSE RoundToFloat(Float(n, c))

\* a <= b on floats.
FLeq(a, b) == a.n < b.n \/ (a.n = b.n /\ a.c <= b.c)

\* a > b on floats.
FGreater(a, b) == a.n > b.n \/ (a.n = b.n /\ a.c > b.c)

\* round(x, 2), in hundredths.
Round2(x) == x.n

\* ------------------------------------------------ key normalisers (chars)
\* str(gstin).strip().upper().replace(" ", "")
NormGstinChars(q) == Remove(UpperSeq(RStrip(LStrip(q, {" "}), {" "})), {" "})

\* The PAN taken to be the whole supplier id (C12 depends on the PAN being
\* its first ten characters).
PanCharsWhole(q) == NormGstinChars(q)

\* norm[:10] if len(norm) >= 10 else norm
PanChars(q) ==
    LET norm == NormGstinChars(q)
    IN  IF Len(norm) >= PanLen THEN SubSeq(norm, 1, PanLen) ELSE norm

\* str(inv).upper().translate(TRANS_TABLE), then lstrip('0')
InvBasicChars(q) == LStrip(Remove(UpperSeq(q), TRANS_TABLE), {"0"})

\* re.sub(r'[^0-9]', '', str(inv)), then lstrip('0')
InvNumericChars(q) == LStrip(Filter(q, Digits), {"0"})

\* digits only; the last four when there are more than four, else lstrip('0')
Last4Chars(q) ==
    LET s == Filter(q, Digits)
    IN  IF Len(s) > Last4Len THEN SubSeq(s, Len(s) - Last4Len + 1, Len(s))
        ELSE LStrip(s, {"0"})

\* ------------------------------------------------------------ dates
NaT == [ok |-> FALSE, y |-> 0, m |-> 0, d |-> 0]

DaysInMonth(y, m) ==
    IF m \in {4, 6, 9, 11} THEN 30
    ELSE IF m = 2
         THEN (IF (y % 4 = 0 /\ y % 100 # 0) \/ y % 400 = 0 THEN 29 ELSE 28)
         ELSE 31

ValidDate(y, m, d) == m \in 1..12 /\ d >= 1 /\ d <= DaysInMonth(y, m)

\* pd.to_datetime(text, dayfirst=True, errors='coerce') on the texts
\* day/month/year written with digits and '/': the day comes first; when that
\* is no calendar date and month/day/year is, the latter is taken; any other
\* text of the input pools (blank, "N/A") is NaT.
ParseDateChars(q) ==
    LET parts == Split(q, "/")
    IN  IF Len(parts) = 3
           /\ \A i \in 1..3 : parts[i] # <<>> /\ Filter(parts[i], Digits) = parts[i]
           /\ Len(parts[3]) = 4
        THEN LET a == ToNum(parts[1])
                 b == ToNum(parts[2])
                 y == ToNum(parts[3])
             IN  IF ValidDate(y, b, a) THEN [ok |-> TRUE, y |-> y, m |-> b, d |-> a]
                 ELSE IF ValidDate(y, a, b) THEN [ok |-> TRUE, y |-> y, m |-> a, d |-> b]
                 ELSE NaT
        ELSE NaT

\* Timestamp <= Timestamp on two parsed dates (C11 depends on the comparison
\* with the cutoff being strict).
DateNotAfter(p, q) ==
    \/ p.y < q.y
    \/ p.y = q.y /\ p.m < q.m
    \/ p.y = q.y /\ p.m = q.m /\ p.d <= q.d

\* Timestamp < Timestamp on two parsed dates.
DateLess(p, q) ==
    \/ p.y < q.y
    \/ p.y = q.y /\ p.m < q.m
    \/ p.y = q.y /\ p.m = q.m /\ p.d < q.d

cutoff == [ok |-> TRUE, y |-> CutoffYear, m |-> CutoffMonth, d |-> CutoffDay]

\* ------------------------------------------------------- similarity
RECURSIVE LCSRow(_, _, _, _)
\* The row of the longest-common-subsequence table for one more character c
\* of the first text: row[j + 1] is the length for the first j characters
\* of b, prev the row before c.
LCSRow(c, b, prev, row) ==
    LET j == Len(row)
    IN  IF j > Len(b) THEN row
        ELSE LCSRow(c, b, prev,
                    Append(row, IF c = b[j] THEN prev[j] + 1
                                ELSE IF prev[j + 1] >= row[j] THEN prev[j + 1]
                                ELSE row[j]))

RECURSIVE LCSRows(_, _, _)
LCSRows(a, b, prev) ==
    IF a = <<>> THEN prev[Len(prev)]
    ELSE LET row == LCSRow(Head(a), b, prev, <<0>>)
         IN  IF Len(row) = 0 THEN 0 ELSE LCSRows(Tail(a), b, row)

\* Length of a longest common subsequence: rapidfuzz's fuzz.ratio is
\* 100 * 2 * LCS / (len(s1) + len(s2)).
LCSLen(a, b) == LCSRows(a, b, [j \in 1..(Len(b) + 1) |-> 0])

RECURSIVE MatchingBlocks(_, _)
\* Total size of difflib.SequenceMatcher's matching blocks: the longest
\* common block (the earliest in a, then the earliest in b), then the same
\* to its left and to its right.
MatchingBlocks(a, b) ==
    LET blocks == { t \in (1..Len(a)) \X (1..Len(b)) \X (1..Min(Len(a), Len(b))) :
                      /\ t[1] + t[3] - 1 <= Len(a)
                      /\ t[2] + t[3] - 1 <= Len(b)
                      /\ SubSeq(a, t[1], t[1] + t[3] - 1) = SubSeq(b, t[2], t[2] + t[3] - 1) }
    IN  IF blocks = {} THEN 0
        ELSE LET best == CHOOSE t \in blocks : \A u \in blocks :
                            \/ t[3] > u[3]
                            \/ t[3] = u[3] /\ t[1] < u[1]
                            \/ t[3] = u[3] /\ t[1] = u[1] /\ t[2] <= u[2]
             IN  best[3]
                 + MatchingBlocks(SubSeq(a, 1, best[1] - 1), SubSeq(b, 1, best[2] - 1))
                 + MatchingBlocks(SubSeq(a, best[1] + best[3], Len(a)),
                                  SubSeq(b, best[2] + best[3], Len(b)))

\* A score is the fraction n/d (of 100), kept exact.
ScoreGreater(p, q) == p.n * q.d > q.n * p.d
ScoreAbove(p, k) == p.n > k * p.d
\* int(score)
ScoreInt(p) == p.n \div p.d
ZeroScore == [n |-> 0, d |-> 1]

\* get_similarity_score on two character sequences; rapid is USE_RAPIDFUZZ.
SimilarityChars(rapid, a, b) ==
    IF Len(a) + Len(b) = 0 THEN [n |-> 100, d |-> 1]
    ELSE [n |-> 200 * (IF rapid THEN LCSLen(a, b) ELSE MatchingBlocks(a, b)),
          d |-> Len(a) + Len(b)]

\* ------------------------------------------------ texts of the inputs
\* "27AAACB1234F1Z5": a supplier id
GSTIN_A == <<"2", "7", "A", "A", "A", "C", "B", "1", "2", "3", "4", "F", "1", "Z", "5">>
\* " 27aaacb1234f 1z5": the same supplier id as typed: lower case, blanks
GSTIN_A_RAW == <<" ", "2", "7", "a", "a", "a", "c", "b", "1", "2", "3", "4", "f", " ", "1", "z", "5">>
\* "27AAACB1234F2Z9": another registration of the same PAN
GSTIN_B == <<"2", "7", "A", "A", "A", "C", "B", "1", "2", "3", "4", "F", "2", "Z", "9">>
\* "": a blank cell
BLANK == <<>>
\* "a-1234": invoice A1234 as the buyer writes it
INV_A == <<"a", "-", "1", "2", "3", "4">>
\* "0A/1234": invoice A1234 with other punctuation and a leading zero
INV_A_PUNCT == <<"0", "A", "/", "1", "2", "3", "4">>
\* "B1234": another invoice with the digits 1234
INV_B == <<"B", "1", "2", "3", "4">>
\* "C1234": a third invoice with the digits 1234
INV_C == <<"C", "1", "2", "3", "4">>
\* "A12345": A1234 with one character too many
INV_A_TYPO == <<"A", "1", "2", "3", "4", "5">>
\* "U51234": an invoice whose last four digits are 1234
INV_U == <<"U", "5", "1", "2", "3", "4">>
\* "15/03/2024": a date before the cutoff
DATE_OLD == <<"1", "5", "/", "0", "3", "/", "2", "0", "2", "4">>
\* "01/04/2024": a date after the cutoff
DATE_NEW == <<"0", "1", "/", "0", "4", "/", "2", "0", "2", "4">>
\* "N/A": a text that is no date and no number
DATE_BAD == <<"N", "/", "A">>
\* "1,800": an amount typed with a thousands separator
AMT_1800 == <<"1", ",", "8", "0", "0">>
\* "F-77": an invoice of its own
INV_F == <<"F", "-", "7", "7">>
\* "AB12345" and its look-alikes: "AB12845" (one digit replaced, score
\* 85.7), "AB123456" and "AB123457" (one digit added, score 93.3 each)
INV_X == <<"A", "B", "1", "2", "3", "4", "5">>
INV_X1 == <<"A", "B", "1", "2", "8", "4", "5">>
INV_X2 == <<"A", "B", "1", "2", "3", "4", "5", "6">>
INV_X3 == <<"A", "B", "1", "2", "3", "4", "5", "7">>
\* "K1234567890123450" and the same with "ZZ9999" after it: 17 of their 40
\* characters are common, a score of exactly 85
INV_L1 == <<"K", "1", "2", "3", "4", "5", "6", "7", "8", "9", "0", "1", "2", "3",
            "4", "5", "0">>
INV_L2 == INV_L1 \o <<"Z", "Z", "9", "9", "9", "9">>
\* The Help tab's example of Layer 7: "9855" and "9885"
INV_T1 == <<"9", "8", "5", "5">>
INV_T2 == <<"9", "8", "8", "5">>
\* "31/03/2024": the cutoff date itself
DATE_CUT == <<"3", "1", "/", "0", "3", "/", "2", "0", "2", "4">>
\* "1111" and "12111": fuzz.ratio scores them 88.9, difflib 66.7
INV_R == <<"1", "1", "1", "1">>
INV_S == <<"1", "2", "1", "1", "1">>

RawTexts == {GSTIN_A, GSTIN_A_RAW, GSTIN_B, BLANK, INV_A, INV_A_PUNCT, INV_B, INV_C,
             INV_A_TYPO, INV_U, INV_F, INV_R, INV_S, INV_X, INV_X1, INV_X2, INV_X3, INV_L1, INV_L2,
             INV_T1, INV_T2, DATE_OLD, DATE_NEW, DATE_BAD, DATE_CUT, AMT_1800}

\* Every text the run can hold: the input texts and their normalised keys.
AllTexts ==
    RawTexts
    \cup {NormGstinChars(q) : q \in RawTexts} \cup {PanChars(q) : q \in RawTexts}
    \cup {InvBasicChars(q) : q \in RawTexts} \cup {InvNumericChars(q) : q \in RawTexts}
    \cup {Last4Chars(q) : q \in RawTexts}

RECURSIVE SpellTable(_)
\* The function from the text of each sequence of Q to the sequence,
\* written out.
SpellTable(Q) ==
    IF Q = {} THEN <<>>
    ELSE LET q == CHOOSE q \in Q : TRUE
         IN  (Str(q) :> q) @@ SpellTable(Q \ {q})

CharsTable == SpellTable(AllTexts)

\* The characters of a text.
Chars(s) == CharsTable[s]

\* ------------------------------------------------ helper functions (text)
\* An amount cell is a number (a numeric spreadsheet cell, n hundredths) or
\* a text.
Num(n) == [num |-> n]
Text(s) == [text |-> s]
\* The numeric cell of a whole amount.
Whole(units) == Num(100 * units)

\* clean_currency: a number passes through as a float; a blank text is 0.0;
\* a text is parsed after deleting ',' and ' '; a text that is not digits
\* then (no text of the inputs has a decimal point) is 0.0.
CleanCurrencyOf(val) ==
    IF "num" \in DOMAIN val THEN FromHundredths(val.num)
    ELSE LET q == Chars(val.text)
             clean_str == Remove(q, {",", " "})
         IN  IF Remove(q, {" "}) = <<>> THEN Float(0, 0)
             ELSE IF Filter(clean_str, Digits) = clean_str
                  THEN FromHundredths(100 * ToNum(clean_str))
             ELSE Float(0, 0)

\* The texts a cell of the inputs can hold.
CellTexts == {Str(q) : q \in RawTexts}

\* The helpers on texts, computed once for every text of the inputs.
NormGstinTable == [t \in CellTexts |-> Str(NormGstinChars(Chars(t)))]
PanTable == [t \in CellTexts |-> Str(PanChars(Chars(t)))]
InvBasicTable == [t \in CellTexts |-> Str(InvBasicChars(Chars(t)))]
InvNumericTable == [t \in CellTexts |-> Str(InvNumericChars(Chars(t)))]
Last4Table == [t \in CellTexts |-> Str(Last4Chars(Chars(t)))]
DateTable == [t \in CellTexts |-> ParseDateChars(Chars(t))]

normalize_gstin(gstin) == NormGstinTable[gstin]

get_pan_from_gstin(gstin) == PanTable[gstin]

normalize_inv_basic_fast(inv) == InvBasicTable[inv]

normalize_inv_numeric(inv) == InvNumericTable[inv]

get_last_4(inv) == Last4Table[inv]

\* pd.to_datetime(text, dayfirst=True, errors='coerce')
to_datetime(text) == DateTable[text]

InvoiceTexts == {INV_A, INV_A_PUNCT, INV_B, INV_C, INV_A_TYPO, INV_U, INV_F, INV_R,
                 INV_S, INV_X, INV_X1, INV_X2, INV_X3, INV_L1, INV_L2, INV_T1, INV_T2,
                 BLANK}

KeyTexts == {Str(InvBasicChars(q)) : q \in InvoiceTexts}

RECURSIVE ScoreRow(_, _, _)
\* The scores of text s1 against the texts of D under the import, written out.
ScoreRow(rapid, s1, D) ==
    IF D = {} THEN <<>>
    ELSE LET s2 == CHOOSE s2 \in D : TRUE
         IN  (<<rapid, s1, s2>> :> SimilarityChars(rapid, Chars(s1), Chars(s2)))
                 @@ ScoreRow(rapid, s1, D \ {s2})

RECURSIVE ScoreTable(_)
\* The scores of the triples (import, text, text) with (import, text) in D.
ScoreTable(D) ==
    IF D = {} THEN <<>>
    ELSE LET t == CHOOSE t \in D : TRUE
         IN  ScoreRow(t[1], t[2], KeyTexts) @@ ScoreTable(D \ {t})

SimilarityTable == ScoreTable(BOOLEAN \X KeyTexts)

\* get_similarity_score(s1, s2) under the import that succeeded.
get_similarity_score(rapid, s1, s2) == SimilarityTable[<<rapid, s1, s2>>]

\* str < str, computed once for every pair of texts the run can hold.
TextLessTable ==
    [p \in {Str(q) : q \in AllTexts} \X {Str(q) : q \in AllTexts} |->
        SeqLess(Chars(p[1]), Chars(p[2]))]

TextLess(s1, s2) == TextLessTable[<<s1, s2>>]

\* ------------------------------------------------------------ inputs
RequiredKeys == {"GSTIN", "INVOICE", "DATE", "TAXABLE", "IGST", "CGST", "SGST"}

Row(gstin, inv, date, taxable, igst, cgst, sgst) ==
    [GSTIN |-> Str(gstin), INVOICE |-> Str(inv), DATE |-> Str(date),
     TAXABLE |-> taxable, IGST |-> igst, CGST |-> cgst, SGST |-> sgst]

\* The rows a source table is drawn from: two lines of one invoice (6000 +
\* 4000 taxable, 1080 + 720 IGST), the same invoice on one line, another
\* invoice of the same total, a row with blank keys, and an invoice of
\* 8191.37.
CisPool ==
    { Row(GSTIN_A_RAW, INV_A, DATE_OLD, Whole(6000), Whole(1080), Whole(0), Whole(0)),
      Row(GSTIN_A_RAW, INV_A, DATE_NEW, Whole(4000), Whole(720), Whole(0), Whole(0)),
      Row(GSTIN_A_RAW, INV_A, DATE_BAD, Whole(10000), Text(Str(AMT_1800)), Text(""), Whole(0)),
      Row(GSTIN_A, INV_B, DATE_NEW, Whole(10000), Whole(0), Whole(900), Whole(900)),
      Row(BLANK, BLANK, BLANK, Whole(10000), Whole(1800), Whole(0), Whole(0)),
      Row(GSTIN_A, INV_F, DATE_NEW, Num(819137), Whole(0), Whole(0), Whole(0)) }

\* The rows a reference table is drawn from.  Against a source total of
\* 10000 + 1800: the same invoice with equal amounts, with the total 2 off
\* and another split, with the taxable value 2 and the tax 1 off, and with
\* half the total plus 1; an invoice with the same digits, one with the same
\* last four digits, the same invoice under another registration of the PAN
\* and the invoice with a typing error, each with the total 2 off; a row
\* with blank keys; and the invoice of 8191.37 at 8193.37.
G2bPool ==
    { Row(GSTIN_A, INV_A_PUNCT, DATE_OLD, Whole(10000), Whole(1800), Whole(0), Whole(0)),
      Row(GSTIN_A, INV_A_PUNCT, DATE_NEW, Whole(10010), Whole(1792), Whole(0), Whole(0)),
      Row(GSTIN_A, INV_A_PUNCT, DATE_BAD, Whole(10002), Whole(0), Whole(901), Whole(900)),
      Row(GSTIN_A, INV_A_PUNCT, DATE_OLD, Whole(5001), Whole(900), Whole(0), Whole(0)),
      Row(GSTIN_A, INV_C, DATE_OLD, Whole(10002), Whole(1800), Whole(0), Whole(0)),
      Row(GSTIN_A, INV_U, DATE_OLD, Whole(10002), Whole(1800), Whole(0), Whole(0)),
      Row(GSTIN_B, INV_A_PUNCT, DATE_NEW, Whole(10000), Whole(1802), Whole(0), Whole(0)),
      Row(GSTIN_A, INV_A_TYPO, DATE_OLD, Whole(10002), Text(Str(AMT_1800)), Whole(0), Whole(0)),
      Row(BLANK, BLANK, BLANK, Whole(10000), Whole(1800), Whole(0), Whole(0)),
      Row(GSTIN_A, INV_F, DATE_NEW, Num(819337), Whole(0), Whole(0), Whole(0)) }

\* The rows of the calls whose layer 7 depends on the similarity import: a
\* source invoice "1111" and a reference invoice "12111" of the same
\* supplier and total, beside an invoice and its typing error.
CisEnvPool ==
    { Row(GSTIN_A, INV_R, DATE_NEW, Whole(10000), Whole(1800), Whole(0), Whole(0)),
      Row(GSTIN_A_RAW, INV_A, DATE_BAD, Whole(10000), Text(Str(AMT_1800)), Text(""), Whole(0)) }

G2bEnvPool ==
    { Row(GSTIN_A, INV_S, DATE_NEW, Whole(10000), Whole(1800), Whole(0), Whole(0)),
      Row(GSTIN_A, INV_A_TYPO, DATE_OLD, Whole(10002), Text(Str(AMT_1800)), Whole(0), Whole(0)) }

\* The rows of the calls that differ in their invoice dates: two invoices of
\* the same supplier and total, each dated before the cutoff, on the cutoff,
\* after it, with a text that is no date and with a blank; and the reference
\* row of the first invoice.
DateTexts == {DATE_OLD, DATE_CUT, DATE_NEW, DATE_BAD, BLANK}

CisDatePool ==
    { Row(GSTIN_A, inv, date, Whole(10000), Whole(1800), Whole(0), Whole(0)) :
        inv \in {INV_A, INV_B}, date \in DateTexts }

G2bDatePool ==
    { Row(GSTIN_A, INV_A_PUNCT, DATE_OLD, Whole(10000), Whole(1800), Whole(0), Whole(0)) }

\* The rows of the calls on two registrations of one PAN: the source lines
\* of invoice "a-1234" (6000 + 4000, or 10000 on one line) and an invoice
\* "B1234" under the first registration; the reference rows of invoice
\* "0A/1234" under the second registration with the same total (in the same
\* and in another split of taxable value and tax), of invoice "C1234" under
\* the second, and of invoice "0A/1234" under the first.
CisPanPool ==
    { Row(GSTIN_A_RAW, INV_A, DATE_OLD, Whole(6000), Whole(1080), Whole(0), Whole(0)),
      Row(GSTIN_A_RAW, INV_A, DATE_NEW, Whole(4000), Whole(720), Whole(0), Whole(0)),
      Row(GSTIN_A_RAW, INV_A, DATE_BAD, Whole(10000), Text(Str(AMT_1800)), Text(""), Whole(0)),
      Row(GSTIN_A, INV_B, DATE_NEW, Whole(10000), Whole(0), Whole(900), Whole(900)) }

G2bPanPool ==
    { Row(GSTIN_B, INV_A_PUNCT, DATE_NEW, Whole(10000), Whole(1800), Whole(0), Whole(0)),
      Row(GSTIN_B, INV_A_PUNCT, DATE_OLD, Whole(10010), Whole(1790), Whole(0), Whole(0)),
      Row(GSTIN_B, INV_C, DATE_OLD, Whole(10000), Whole(1800), Whole(0), Whole(0)),
      Row(GSTIN_A, INV_A_PUNCT, DATE_OLD, Whole(10000), Whole(1800), Whole(0), Whole(0)) }

\* The rows of the calls on an invoice the reference table has in two
\* entries: the source invoice of 9000 (6000 + 3000 on one line, or on the
\* two lines 4000 + 2000 and 2000 + 1000) and reference rows of 4500
\* (3000 + 1500, 3750 + 750, 4500 + 0), beside a reference row of another
\* invoice.
CisRevPool ==
    { Row(GSTIN_A_RAW, INV_A, DATE_NEW, Whole(6000), Whole(3000), Whole(0), Whole(0)),
      Row(GSTIN_A_RAW, INV_A, DATE_NEW, Whole(4000), Whole(2000), Whole(0), Whole(0)),
      Row(GSTIN_A_RAW, INV_A, DATE_OLD, Whole(2000), Whole(1000), Whole(0), Whole(0)) }

G2bRevPool ==
    { Row(GSTIN_A, INV_A_PUNCT, DATE_NEW, Whole(3000), Whole(1500), Whole(0), Whole(0)),
      Row(GSTIN_A, INV_A_PUNCT, DATE_NEW, Whole(3750), Whole(750), Whole(0), Whole(0)),
      Row(GSTIN_A, INV_A_PUNCT, DATE_OLD, Whole(4500), Whole(0), Whole(0), Whole(0)),
      Row(GSTIN_A, INV_C, DATE_OLD, Whole(3000), Whole(1500), Whole(0), Whole(0)) }

\* The rows of the calls layer 7 decides: the source invoices "AB12345" and
\* "K1234567890123450" of one supplier and total; the reference invoices
\* "AB12845", "AB123456", "AB123457" with the total 2 off, "AB123456" under
\* another registration, and "K1234567890123450ZZ9999".
CisFuzzyPool ==
    { Row(GSTIN_A, INV_X, DATE_NEW, Whole(10000), Whole(1800), Whole(0), Whole(0)),
      Row(GSTIN_A, INV_L1, DATE_NEW, Whole(10000), Whole(1800), Whole(0), Whole(0)) }

G2bFuzzyPool ==
    { Row(GSTIN_A, INV_X1, DATE_NEW, Whole(10000), Whole(1800), Whole(0), Whole(0)),
      Row(GSTIN_A, INV_X2, DATE_NEW, Whole(10000), Whole(1800), Whole(0), Whole(0)),
      Row(GSTIN_A, INV_X3, DATE_NEW, Whole(10002), Whole(1800), Whole(0), Whole(0)),
      Row(GSTIN_B, INV_X2, DATE_NEW, Whole(10000), Whole(1800), Whole(0), Whole(0)),
      Row(GSTIN_A, INV_L2, DATE_NEW, Whole(10000), Whole(1800), Whole(0), Whole(0)) }

\* The rows of the calls on the Help tab's example: the source invoices
\* "9855" and "a-1234", the reference invoices "9885" under the same and
\* under another registration and "a-1234".
CisTypoPool ==
    { Row(GSTIN_A, INV_T1, DATE_NEW, Whole(10000), Whole(1800), Whole(0), Whole(0)),
      Row(GSTIN_A, INV_A, DATE_NEW, Whole(10000), Whole(1800), Whole(0), Whole(0)) }

G2bTypoPool ==
    { Row(GSTIN_A, INV_T2, DATE_NEW, Whole(10000), Whole(1800), Whole(0), Whole(0)),
      Row(GSTIN_B, INV_T2, DATE_NEW, Whole(10000), Whole(1800), Whole(0), Whole(0)),
      Row(GSTIN_A, INV_A, DATE_NEW, Whole(10000), Whole(1800), Whole(0), Whole(0)) }

\* The rows of the runs started with either checkbox of the sidebar: the
\* source invoices "AB12345" and "a-1234" (6000 + 3000), the reference
\* invoices "AB123456" and "0A/1234" (3000 + 1500, one of two entries).
CisSwitchPool ==
    { Row(GSTIN_A, INV_X, DATE_NEW, Whole(10000), Whole(1800), Whole(0), Whole(0)),
      Row(GSTIN_A_RAW, INV_A, DATE_NEW, Whole(6000), Whole(3000), Whole(0), Whole(0)) }

G2bSwitchPool ==
    { Row(GSTIN_A, INV_X2, DATE_NEW, Whole(10000), Whole(1800), Whole(0), Whole(0)),
      Row(GSTIN_A, INV_A_PUNCT, DATE_NEW, Whole(3000), Whole(1500), Whole(0), Whole(0)) }

\* The rows of the calls on records without a supplier id: the source
\* invoice "a-1234" without and with a supplier id, the reference invoice
\* "0A/1234" without and with a supplier id and a reference row without
\* either.
CisNoGstinPool ==
    { Row(BLANK, INV_A, DATE_NEW, Whole(10000), Whole(1800), Whole(0), Whole(0)),
      Row(GSTIN_A, INV_A, DATE_NEW, Whole(10000), Whole(1800), Whole(0), Whole(0)) }

G2bNoGstinPool ==
    { Row(BLANK, INV_A_PUNCT, DATE_NEW, Whole(10000), Whole(1800), Whole(0), Whole(0)),
      Row(GSTIN_A, INV_A_PUNCT, DATE_NEW, Whole(10000), Whole(1800), Whole(0), Whole(0)),
      Row(BLANK, BLANK, BLANK, Whole(10000), Whole(1800), Whole(0), Whole(0)) }

\* The rows of the calls Layer 3 decides: the source invoices "F-77" of
\* 8191.37 and "a-1234" of 10000 + 1800, the reference invoices "F-77" of
\* 8193.37 and "0A/1234" of 10010 + 1792, each 2.00 from its source invoice.
CisHighPool ==
    { Row(GSTIN_A, INV_F, DATE_NEW, Num(819137), Whole(0), Whole(0), Whole(0)),
      Row(GSTIN_A_RAW, INV_A, DATE_NEW, Whole(10000), Whole(1800), Whole(0), Whole(0)) }

G2bHighPool ==
    { Row(GSTIN_A, INV_F, DATE_NEW, Num(819337), Whole(0), Whole(0), Whole(0)),
      Row(GSTIN_A, INV_A_PUNCT, DATE_NEW, Whole(10010), Whole(1792), Whole(0), Whole(0)) }

\* The (standard, high) tolerance pairs of those calls, in hundredths.
HighTolerances == { <<100, 200>>, <<200, 300>>, <<200, 100>> }

\* The rows of the calls on an invoice the reference table splits unevenly:
\* the source invoices "F-77" of 8193.37 and "a-1234" of 10000 + 1800, the
\* reference entries "F-77" of 8191.37 and of 0.01 and "0A/1234" of
\* 5000 + 900.
CisClubPool ==
    { Row(GSTIN_A, INV_F, DATE_NEW, Num(819337), Whole(0), Whole(0), Whole(0)),
      Row(GSTIN_A_RAW, INV_A, DATE_NEW, Whole(10000), Whole(1800), Whole(0), Whole(0)) }

G2bClubPool ==
    { Row(GSTIN_A, INV_F, DATE_NEW, Num(819137), Whole(0), Whole(0), Whole(0)),
      Row(GSTIN_A, INV_F, DATE_NEW, Num(1), Whole(0), Whole(0), Whole(0)),
      Row(GSTIN_A, INV_A_PUNCT, DATE_NEW, Whole(5000), Whole(900), Whole(0), Whole(0)) }

\* The (standard, high) tolerance pairs of those calls, in hundredths.
ClubTolerances == { <<200, 100>>, <<100, 200>> }

\* The rows of the calls on one invoice number under two suppliers: the
\* source invoices "a-1234" of 10000 + 1800 under either registration and
\* "B1234" under the first, the reference invoices "0A/1234" of
\* 10000 + 1800 under the first registration and of 10000 + 1802 under the
\* second, and "B1234" of 10003 + 1800.
CisOrderPool ==
    { Row(GSTIN_A_RAW, INV_A, DATE_NEW, Whole(10000), Whole(1800), Whole(0), Whole(0)),
      Row(GSTIN_B, INV_A, DATE_NEW, Whole(10000), Whole(1800), Whole(0), Whole(0)),
      Row(GSTIN_A, INV_B, DATE_NEW, Whole(10000), Whole(1800), Whole(0), Whole(0)) }

G2bOrderPool ==
    { Row(GSTIN_A, INV_A_PUNCT, DATE_NEW, Whole(10000), Whole(1800), Whole(0), Whole(0)),
      Row(GSTIN_B, INV_A_PUNCT, DATE_NEW, Whole(10000), Whole(1802), Whole(0), Whole(0)),
      Row(GSTIN_A, INV_B, DATE_NEW, Whole(10003), Whole(1800), Whole(0), Whole(0)) }

\* The (standard, high) tolerance pairs of those calls, in hundredths: all
\* below 4500.00.
RevTolerances == { <<100, 200>>, <<224999, 100>>, <<225000, 100>>, <<100, 449999>> }

\* The (standard, high) tolerance pairs a run is started with, in hundredths.
Tolerances == { <<100, 200>>, <<200, 100>> }

\* clean_currency, computed once for every amount cell of the inputs.
AmountCells ==
    UNION { {r.TAXABLE, r.IGST, r.CGST, r.SGST} :
              r \in CisPool \cup G2bPool \cup CisEnvPool \cup G2bEnvPool
                     \cup CisDatePool \cup G2bDatePool \cup CisPanPool \cup G2bPanPool
                     \cup CisRevPool \cup G2bRevPool \cup CisFuzzyPool \cup G2bFuzzyPool
                     \cup CisTypoPool \cup G2bTypoPool
                     \cup CisNoGstinPool \cup G2bNoGstinPool
                     \cup CisHighPool \cup G2bHighPool
                     \cup CisClubPool \cup G2bClubPool
                     \cup CisOrderPool \cup G2bOrderPool }

CleanCurrencyTable == [val \in AmountCells |-> CleanCurrencyOf(val)]

clean_currency(val) == CleanCurrencyTable[val]

Tables(pool, max) == UNION { [1..n -> pool] : n \in 1..max }

\* ------------------------------------------------------------- state
VARIABLES
    cis_df,          \* the source table handed to the run
    gstr2b_df,       \* the reference table handed to the run
    col_map_cis,     \* the keys the source field mapping has
    col_map_g2b,     \* the keys the reference field mapping has
    tol_std,         \* standard tolerance (a float)
    tol_high,        \* high tolerance (a float)
    USE_RAPIDFUZZ,   \* which similarity import succeeded
    enable_fuzzy,    \* the sidebar's "Enable Fuzzy Matching" checkbox
    enable_reverse,  \* the sidebar's "Enable Reverse Clubbing" checkbox
    cis_proc,        \* the working source table
    g2b_proc,        \* the working reference table
    cis_grouped,     \* the clubbed source groups
    g2b_grouped,     \* layer 8's groups of leftover reference rows
    match_stats,     \* layer name -> count, in insertion order
    audit_log,       \* the audit entries, in append order
    cis_final,       \* the returned source table
    g2b_final,       \* the returned reference table
    pc,              \* the stage the run is at
    layer,           \* the layer running (1..8)
    idx,             \* position of the group loop in cis_grouped
    count            \* the running layer's count

vars == << cis_df, gstr2b_df, col_map_cis, col_map_g2b, tol_std, tol_high,
           USE_RAPIDFUZZ, enable_fuzzy, enable_reverse, cis_proc, g2b_proc, cis_grouped, g2b_grouped,
           match_stats, audit_log, cis_final, g2b_final, pc, layer, idx, count >>

inputs == << cis_df, gstr2b_df, col_map_cis, col_map_g2b, tol_std, tol_high,
             USE_RAPIDFUZZ, enable_fuzzy, enable_reverse >>

\* Lines 803-804: both checkboxes are checked unless the user unchecks them.
SidebarDefaults ==
    /\ enable_fuzzy = TRUE
    /\ enable_reverse = TRUE

\* The state the run starts in, whatever the inputs.
Fresh ==
    /\ cis_proc = <<>>
    /\ g2b_proc = <<>>
    /\ cis_grouped = <<>>
    /\ g2b_grouped = <<>>
    /\ match_stats = <<>>
    /\ audit_log = <<>>
    /\ cis_final = <<>>
    /\ g2b_final = <<>>
    /\ pc = "preprocess"
    /\ layer = 0
    /\ idx = 0
    /\ count = 0

\* A call with complete field mappings.
Init ==
    /\ cis_df \in Tables(CisPool, MaxCIS)
    /\ gstr2b_df \in Tables(G2bPool, MaxG2B)
    /\ col_map_cis = RequiredKeys
    /\ col_map_g2b = RequiredKeys
    /\ \E t \in Tolerances : /\ tol_std = FromHundredths(t[1])
                              /\ tol_high = FromHundredths(t[2])
    /\ USE_RAPIDFUZZ \in BOOLEAN
    /\ SidebarDefaults
    /\ Fresh

\* A call with complete field mappings whose invoices the two similarity
\* imports score differently.
InitEnv ==
    /\ cis_df \in Tables(CisEnvPool, MaxEnvRows)
    /\ gstr2b_df \in Tables(G2bEnvPool, MaxEnvRows)
    /\ col_map_cis = RequiredKeys
    /\ col_map_g2b = RequiredKeys
    /\ \E t \in Tolerances : /\ tol_std = FromHundredths(t[1])
                              /\ tol_high = FromHundredths(t[2])
    /\ USE_RAPIDFUZZ \in BOOLEAN
    /\ SidebarDefaults
    /\ Fresh

\* A call with complete field mappings whose source rows differ in their
\* invoice dates.
InitDate ==
    /\ cis_df \in Tables(CisDatePool, MaxDateRows)
    /\ gstr2b_df \in Tables(G2bDatePool, 1)
    /\ col_map_cis = RequiredKeys
    /\ col_map_g2b = RequiredKeys
    /\ \E t \in Tolerances : /\ tol_std = FromHundredths(t[1])
                              /\ tol_high = FromHundredths(t[2])
    /\ USE_RAPIDFUZZ \in BOOLEAN
    /\ SidebarDefaults
    /\ Fresh

\* A call with complete field mappings on two registrations of one PAN.
InitPan ==
    /\ cis_df \in Tables(CisPanPool, MaxPanRows)
    /\ gstr2b_df \in Tables(G2bPanPool, MaxPanRows)
    /\ col_map_cis = RequiredKeys
    /\ col_map_g2b = RequiredKeys
    /\ \E t \in Tolerances : /\ tol_std = FromHundredths(t[1])
                              /\ tol_high = FromHundredths(t[2])
    /\ USE_RAPIDFUZZ \in BOOLEAN
    /\ SidebarDefaults
    /\ Fresh

\* A call with complete field mappings on an invoice the reference table
\* has in two entries.
InitRev ==
    /\ cis_df \in Tables(CisRevPool, MaxRevRows)
    /\ gstr2b_df \in Tables(G2bRevPool, MaxRevRows)
    /\ col_map_cis = RequiredKeys
    /\ col_map_g2b = RequiredKeys
    /\ \E t \in RevTolerances : /\ tol_std = FromHundredths(t[1])
                                 /\ tol_high = FromHundredths(t[2])
    /\ USE_RAPIDFUZZ \in BOOLEAN
    /\ SidebarDefaults
    /\ Fresh

\* A call with complete field mappings that layer 7 decides.
InitFuzzy ==
    /\ cis_df \in Tables(CisFuzzyPool, 2)
    /\ gstr2b_df \in Tables(G2bFuzzyPool, MaxFuzzyRows)
    /\ col_map_cis = RequiredKeys
    /\ col_map_g2b = RequiredKeys
    /\ \E t \in Tolerances : /\ tol_std = FromHundredths(t[1])
                              /\ tol_high = FromHundredths(t[2])
    /\ USE_RAPIDFUZZ \in BOOLEAN
    /\ SidebarDefaults
    /\ Fresh

\* A call with complete field mappings on the Help tab's example.
InitTypo ==
    /\ cis_df \in Tables(CisTypoPool, MaxTypoRows)
    /\ gstr2b_df \in Tables(G2bTypoPool, MaxTypoRows)
    /\ col_map_cis = RequiredKeys
    /\ col_map_g2b = RequiredKeys
    /\ \E t \in Tolerances : /\ tol_std = FromHundredths(t[1])
                              /\ tol_high = FromHundredths(t[2])
    /\ USE_RAPIDFUZZ \in BOOLEAN
    /\ SidebarDefaults
    /\ Fresh

\* A run started from the page with either checkbox checked or unchecked.
InitSwitch ==
    /\ cis_df \in Tables(CisSwitchPool, MaxSwitchRows)
    /\ gstr2b_df \in Tables(G2bSwitchPool, MaxSwitchRows + 1)
    /\ col_map_cis = RequiredKeys
    /\ col_map_g2b = RequiredKeys
    /\ \E t \in Tolerances : /\ tol_std = FromHundredths(t[1])
                              /\ tol_high = FromHundredths(t[2])
    /\ USE_RAPIDFUZZ \in BOOLEAN
    /\ enable_fuzzy \in BOOLEAN
    /\ enable_reverse \in BOOLEAN
    /\ Fresh

\* A call with complete field mappings on records without a supplier id.
InitNoGstin ==
    /\ cis_df \in Tables(CisNoGstinPool, MaxNoGstinRows)
    /\ gstr2b_df \in Tables(G2bNoGstinPool, MaxNoGstinRows)
    /\ col_map_cis = RequiredKeys
    /\ col_map_g2b = RequiredKeys
    /\ \E t \in Tolerances : /\ tol_std = FromHundredths(t[1])
                              /\ tol_high = FromHundredths(t[2])
    /\ USE_RAPIDFUZZ \in BOOLEAN
    /\ SidebarDefaults
    /\ Fresh

\* A call with complete field mappings that Layer 3 decides.
InitHigh ==
    /\ cis_df \in Tables(CisHighPool, MaxHighRows)
    /\ gstr2b_df \in Tables(G2bHighPool, MaxHighRows)
    /\ col_map_cis = RequiredKeys
    /\ col_map_g2b = RequiredKeys
    /\ \E t \in HighTolerances : /\ tol_std = FromHundredths(t[1])
                                  /\ tol_high = FromHundredths(t[2])
    /\ USE_RAPIDFUZZ \in BOOLEAN
    /\ SidebarDefaults
    /\ Fresh

\* A call with complete field mappings on an invoice the reference table
\* has in a large entry and a small one.
InitClub ==
    /\ cis_df \in Tables(CisClubPool, MaxClubRows)
    /\ gstr2b_df \in Tables(G2bClubPool, MaxClubRows)
    /\ col_map_cis = RequiredKeys
    /\ col_map_g2b = RequiredKeys
    /\ \E t \in ClubTolerances : /\ tol_std = FromHundredths(t[1])
                                  /\ tol_high = FromHundredths(t[2])
    /\ USE_RAPIDFUZZ \in BOOLEAN
    /\ SidebarDefaults
    /\ Fresh

\* A call with complete field mappings on one invoice number under two
\* suppliers.
InitOrder ==
    /\ cis_df \in Tables(CisOrderPool, MaxOrderRows)
    /\ gstr2b_df \in Tables(G2bOrderPool, MaxOrderRows)
    /\ col_map_cis = RequiredKeys
    /\ col_map_g2b = RequiredKeys
    /\ \E t \in HighTolerances : /\ tol_std = FromHundredths(t[1])
                                  /\ tol_high = FromHundredths(t[2])
    /\ USE_RAPIDFUZZ \in BOOLEAN
    /\ SidebarDefaults
    /\ Fresh

\* A call in which one of the two field mappings lacks one of its keys.
InitMap ==
    /\ cis_df \in Tables(CisPool, MaxMapRows)
    /\ gstr2b_df \in Tables(G2bPool, MaxMapRows)
    /\ \E k \in RequiredKeys :
            \/ col_map_cis = RequiredKeys \ {k} /\ col_map_g2b = RequiredKeys
            \/ col_map_cis = RequiredKeys /\ col_map_g2b = RequiredKeys \ {k}
    /\ \E t \in Tolerances : /\ tol_std = FromHundredths(t[1])
                              /\ tol_high = FromHundredths(t[2])
    /\ USE_RAPIDFUZZ \in BOOLEAN
    /\ SidebarDefaults
    /\ Fresh

\* --------------------------------------------------- A. preprocessing
\* agg 'first' where 'sum' is meant: the value of the first row (C4 depends
\* on the sums).
SumSeqFirst(q) == IF q = <<>> THEN Float(0, 0) ELSE q[1]

RECURSIVE SumSeq(_)
\* agg 'sum' of a float column: the values added in row order, from 0.0.
SumSeq(q) ==
    IF q = <<>> THEN Float(0, 0)
    ELSE FAdd(SumSeq(SubSeq(q, 1, Len(q) - 1)), q[Len(q)])

\* The positions of q that satisfy Test, in order.
SelectIdx(q, Test(_)) ==
    LET F[i \in 0..Len(q)] ==
            IF i = 0 THEN <<>>
            ELSE IF Test(q[i]) THEN Append(F[i - 1], i) ELSE F[i - 1]
    IN  F[Len(q)]

\* The key, financial and output columns added to one source row; i is the
\* row's position (1-based), which becomes its 'Index CIS'.
CisProcRow(r, i) ==
    LET taxable == clean_currency(r.TAXABLE)
        tax == FAdd(FAdd(clean_currency(r.IGST), clean_currency(r.CGST)),
                    clean_currency(r.SGST))
    IN  [GSTIN |-> r.GSTIN, INVOICE |-> r.INVOICE, DATE |-> r.DATE,
         TAXABLE |-> r.TAXABLE, IGST |-> r.IGST, CGST |-> r.CGST, SGST |-> r.SGST,
         Index_CIS |-> i,
         Norm_GSTIN |-> normalize_gstin(r.GSTIN),
         Norm_PAN |-> get_pan_from_gstin(r.GSTIN),
         Inv_Basic |-> normalize_inv_basic_fast(r.INVOICE),
         Inv_Num |-> normalize_inv_numeric(r.INVOICE),
         Inv_Last4 |-> get_last_4(r.INVOICE),
         Taxable |-> taxable, Tax |-> tax, Grand_Total |-> FAdd(taxable, tax),
         Matching_Status |-> "Unmatched", Match_Category |-> "",
         Detailed_Remark |-> <<>>, GSTR_2B_Key |-> <<>>,
         Short_Remark |-> "", Comments_Remarks |-> ""]

\* The same for one reference row; its INDEX is its 0-based position plus
\* 100000.
G2bProcRow(r, i) ==
    LET taxable == clean_currency(r.TAXABLE)
        tax == FAdd(FAdd(clean_currency(r.IGST), clean_currency(r.CGST)),
                    clean_currency(r.SGST))
    IN  [GSTIN |-> r.GSTIN, INVOICE |-> r.INVOICE, DATE |-> r.DATE,
         TAXABLE |-> r.TAXABLE, IGST |-> r.IGST, CGST |-> r.CGST, SGST |-> r.SGST,
         INDEX |-> (i - 1) + G2BIndexBase,
         Norm_GSTIN |-> normalize_gstin(r.GSTIN),
         Norm_PAN |-> get_pan_from_gstin(r.GSTIN),
         Inv_Basic |-> normalize_inv_basic_fast(r.INVOICE),
         Inv_Num |-> normalize_inv_numeric(r.INVOICE),
         Inv_Last4 |-> get_last_4(r.INVOICE),
         Taxable |-> taxable, Tax |-> tax, Grand_Total |-> FAdd(taxable, tax),
         Matching_Status |-> "Unmatched", CIS_Key |-> <<>>]

\* The run's state as one record, and the record written back.
S == [cis_df |-> cis_df, gstr2b_df |-> gstr2b_df, col_map_cis |-> col_map_cis,
      col_map_g2b |-> col_map_g2b, tol_std |-> tol_std, tol_high |-> tol_high,
      USE_RAPIDFUZZ |-> USE_RAPIDFUZZ, enable_fuzzy |-> enable_fuzzy,
      enable_reverse |-> enable_reverse, cis_proc |-> cis_proc, g2b_proc |-> g2b_proc,
      cis_grouped |-> cis_grouped, g2b_grouped |-> g2b_grouped,
      match_stats |-> match_stats, audit_log |-> audit_log, cis_final |-> cis_final,
      g2b_final |-> g2b_final, pc |-> pc, layer |-> layer, idx |-> idx,
      count |-> count]

Becomes(n) ==
    /\ cis_proc' = n.cis_proc
    /\ g2b_proc' = n.g2b_proc
    /\ cis_grouped' = n.cis_grouped
    /\ g2b_grouped' = n.g2b_grouped
    /\ match_stats' = n.match_stats
    /\ audit_log' = n.audit_log
    /\ cis_final' = n.cis_final
    /\ g2b_final' = n.g2b_final
    /\ pc' = n.pc
    /\ layer' = n.layer
    /\ idx' = n.idx
    /\ count' = n.count
    /\ UNCHANGED inputs

\* A KeyError (a mapping without the key looked up) ends the run: the
\* exception leaves run_8_layer_reconciliation and nothing is returned.
Raise(s) == [s EXCEPT !.pc = "error"]

\* The mapping keys the preprocessing looks up, in both mappings.
PreprocessKeys == {"GSTIN", "INVOICE", "TAXABLE", "IGST", "CGST", "SGST"}

\* Lines 339-392: keys, financials and output columns of both tables.
PreprocessStep(s) ==
    IF PreprocessKeys \subseteq s.col_map_cis /\ PreprocessKeys \subseteq s.col_map_g2b
    THEN [s EXCEPT
            !.cis_proc = [i \in 1..Len(s.cis_df) |-> CisProcRow(s.cis_df[i], i)],
            !.g2b_proc = [i \in 1..Len(s.gstr2b_df) |-> G2bProcRow(s.gstr2b_df[i], i)],
            !.pc = "grouping"]
    ELSE Raise(s)

Preprocess ==
    /\ pc = "preprocess"
    /\ Becomes(PreprocessStep(S))

\* --------------------------------------------------- B. grouping
RECURSIVE KeyLess(_, _)
\* The order groupby sorts its keys in: tuples of str compared in turn.
KeyLess(k1, k2) ==
    \/ TextLess(k1[1], k2[1])
    \/ k1[1] = k2[1] /\ Len(k1) > 1 /\ KeyLess(Tail(k1), Tail(k2))

RECURSIVE SortKeys(_)
\* The keys of a set in ascending order.
SortKeys(K) ==
    IF K = {} THEN <<>>
    ELSE LET least == CHOOSE k \in K : \A o \in K \ {k} : KeyLess(k, o)
         IN  <<least>> \o SortKeys(K \ {least})

\* agg 'first': the first value that is not null (blank), null when all are.
FirstNonNull(q) ==
    IF \E i \in 1..Len(q) : q[i] # ""
    THEN q[CHOOSE i \in 1..Len(q) : q[i] # "" /\ \A j \in 1..(i - 1) : q[j] = ""]
    ELSE ""

\* The key a source row is grouped by.
CisKeyOf(r) == <<r.Norm_GSTIN, r.Norm_PAN, r.Inv_Basic>>

\* The aggregated row of each key of keys, in the order of keys.
CisGroups(proc, keys) ==
    LET group(k) ==
            LET IsMember(r) == CisKeyOf(r) = k
                members == SelectIdx(proc, IsMember)
                col(f) == [j \in 1..Len(members) |-> proc[members[j]][f]]
            IN  [Norm_GSTIN |-> k[1], Norm_PAN |-> k[2], Inv_Basic |-> k[3],
                 Taxable |-> SumSeq(col("Taxable")),
                 Tax |-> SumSeq(col("Tax")),
                 Grand_Total |-> SumSeq(col("Grand_Total")),
                 Inv_Num |-> col("Inv_Num")[1],
                 Inv_Last4 |-> col("Inv_Last4")[1],
                 INVOICE |-> FirstNonNull(col("INVOICE")),
                 DATE |-> FirstNonNull(col("DATE")),
                 Index_CIS |-> col("Index_CIS"),
                 Matched_Flag |-> FALSE]
    IN  [g \in 1..Len(keys) |-> group(keys[g])]

\* The grouping with sort=False: the groups in the order in which their
\* first rows appear in the table (C5 depends on the order of the groups).
GroupCisInputOrder(proc) ==
    LET F[i \in 0..Len(proc)] ==
            IF i = 0 THEN <<>>
            ELSE IF \E n \in 1..Len(F[i - 1]) : F[i - 1][n] = CisKeyOf(proc[i])
                 THEN F[i - 1]
                 ELSE Append(F[i - 1], CisKeyOf(proc[i]))
    IN  CisGroups(proc, F[Len(proc)])

\* cis_proc.groupby(['Norm_GSTIN', 'Norm_PAN', 'Inv_Basic']).agg({...}),
\* with Matched_Flag False: one row per key, in ascending order of the key
\* (groupby sorts its keys).
GroupCis(proc) ==
    CisGroups(proc, SortKeys({CisKeyOf(proc[i]) : i \in 1..Len(proc)}))

\* Lines 397-410: the groups, and the empty statistics and audit log.  The
\* aggregation looks up the source mapping's INVOICE and DATE.
GroupingStep(s) ==
    IF "DATE" \in s.col_map_cis
    THEN [s EXCEPT !.cis_grouped = GroupCis(s.cis_proc),
                   !.pc = "layer", !.layer = 1, !.idx = 1, !.count = 0]
    ELSE Raise(s)

Grouping ==
    /\ pc = "grouping"
    /\ Becomes(GroupingStep(S))

\* --------------------------------------------------- C. commit_match
\* One audit entry (the wall-clock timestamp is left out).
AuditEntry(layer_name, cis_indices, g2b_indices, diff_grand, detail_str) ==
    [layer |-> layer_name, cis_ids |-> cis_indices, g2b_ids |-> g2b_indices,
     difference |-> Round2(diff_grand), detail |-> detail_str]

\* f"{existing} | {layer_name}".strip(" |")
NewRemark(existing, layer_name) ==
    IF existing = "" THEN layer_name ELSE existing \o " | " \o layer_name

\* Lines 435-437 with only the first source id written to 'CIS Key' (C19
\* depends on the join of all the ids).
UpdateG2bFirstId(g2b, g2b_indices, cis_indices) ==
    [j \in 1..Len(g2b) |->
        IF \E n \in 1..Len(g2b_indices) : g2b_indices[n] = g2b[j].INDEX
        THEN [g2b[j] EXCEPT !.Matching_Status = "Matched",
                            !.CIS_Key = SubSeq(cis_indices, 1, 1)]
        ELSE g2b[j]]

\* Lines 435-437: every reference row whose INDEX is committed.
UpdateG2b(g2b, g2b_indices, cis_indices) ==
    [j \in 1..Len(g2b) |->
        IF \E n \in 1..Len(g2b_indices) : g2b_indices[n] = g2b[j].INDEX
        THEN [g2b[j] EXCEPT !.Matching_Status = "Matched", !.CIS_Key = cis_indices]
        ELSE g2b[j]]

\* Lines 440-451 with the columns mixed up: the layer's name is written to
\* 'Matching Status' (C1 depends on the status written here).
UpdateCisStatusIsLayer(cis, cis_indices, layer_name, g2b_indices, detail_str) ==
    [i \in 1..Len(cis) |->
        IF \E n \in 1..Len(cis_indices) : cis_indices[n] = cis[i].Index_CIS
        THEN [cis[i] EXCEPT !.Matching_Status = layer_name,
                            !.Match_Category = layer_name,
                            !.GSTR_2B_Key = g2b_indices,
                            !.Short_Remark = "Matched",
                            !.Detailed_Remark = detail_str,
                            !.Comments_Remarks = NewRemark(@, layer_name)]
        ELSE cis[i]]

\* Lines 440-451 for the first id of the group only (C25 depends on the
\* loop over all the ids).
UpdateCisFirstId(cis, cis_indices, layer_name, g2b_indices, detail_str) ==
    [i \in 1..Len(cis) |->
        IF cis_indices[1] = cis[i].Index_CIS
        THEN [cis[i] EXCEPT !.Matching_Status = "Matched",
                            !.Match_Category = layer_name,
                            !.GSTR_2B_Key = g2b_indices,
                            !.Short_Remark = "Matched",
                            !.Detailed_Remark = detail_str,
                            !.Comments_Remarks = NewRemark(@, layer_name)]
        ELSE cis[i]]

\* Lines 440-451: every source row whose 'Index CIS' is committed.
UpdateCis(cis, cis_indices, layer_name, g2b_indices, detail_str) ==
    [i \in 1..Len(cis) |->
        IF \E n \in 1..Len(cis_indices) : cis_indices[n] = cis[i].Index_CIS
        THEN [cis[i] EXCEPT !.Matching_Status = "Matched",
                            !.Match_Category = layer_name,
                            !.GSTR_2B_Key = g2b_indices,
                            !.Short_Remark = "Matched",
                            !.Detailed_Remark = detail_str,
                            !.Comments_Remarks = NewRemark(@, layer_name)]
        ELSE cis[i]]

\* commit_match without line 422: the group's flag is left as it was (C2
\* depends on the flag being set).
SetFlagNever(groups, pos, is_reverse) == groups

\* Line 422: the flag of the group at position pos (not for reverse clubbing,
\* which sets it itself).
SetFlag(groups, pos, is_reverse) ==
    IF is_reverse THEN groups ELSE [groups EXCEPT ![pos].Matched_Flag = TRUE]

\* commit_match with the entry put at the head of the log (C18 depends on
\* list.append).
commit_match_at_head(s, layer_name, pos, g2b_indices, diff_grand, detail_str, is_reverse) ==
    LET cis_indices == s.cis_grouped[pos].Index_CIS
    IN  [s EXCEPT
            !.cis_grouped = SetFlag(@, pos, is_reverse),
            !.audit_log = <<AuditEntry(layer_name, cis_indices, g2b_indices,
                                       diff_grand, detail_str)>> \o @,
            !.g2b_proc = UpdateG2b(@, g2b_indices, cis_indices),
            !.cis_proc = UpdateCis(@, cis_indices, layer_name, g2b_indices, detail_str)]

\* The statements of commit_match with the records updated first and the
\* audit entry appended last (C24 depends on the order of the statements).
CommitOrderAuditLast(s, layer_name, pos, g2b_indices, diff_grand, detail_str, is_reverse) ==
    LET cis_indices == s.cis_grouped[pos].Index_CIS
        flagged == [s EXCEPT !.cis_grouped = SetFlag(@, pos, is_reverse)]
        g2b_done == [flagged EXCEPT !.g2b_proc = UpdateG2b(@, g2b_indices, cis_indices)]
        cis_done == [g2b_done EXCEPT
                        !.cis_proc = UpdateCis(@, cis_indices, layer_name, g2b_indices,
                                               detail_str)]
        logged == [cis_done EXCEPT
                      !.audit_log = Append(@, AuditEntry(layer_name, cis_indices,
                                                         g2b_indices, diff_grand,
                                                         detail_str))]
    IN  << s, flagged, g2b_done, cis_done, logged >>

\* Lines 416-451: the states commit_match goes through, in the order of its
\* statements: the state it is called in, after the flag (line 422), after
\* the audit entry (lines 425-432), after the reference rows (lines
\* 435-437), after the source rows (lines 440-451).
CommitOrder(s, layer_name, pos, g2b_indices, diff_grand, detail_str, is_reverse) ==
    LET cis_indices == s.cis_grouped[pos].Index_CIS
        flagged == [s EXCEPT !.cis_grouped = SetFlag(@, pos, is_reverse)]
        logged == [flagged EXCEPT
                      !.audit_log = Append(@, AuditEntry(layer_name, cis_indices,
                                                         g2b_indices, diff_grand,
                                                         detail_str))]
        g2b_done == [logged EXCEPT !.g2b_proc = UpdateG2b(@, g2b_indices, cis_indices)]
        cis_done == [g2b_done EXCEPT
                        !.cis_proc = UpdateCis(@, cis_indices, layer_name, g2b_indices,
                                               detail_str)]
    IN  << s, flagged, logged, g2b_done, cis_done >>

\* commit_match for the group at position pos of cis_grouped.
commit_match(s, layer_name, pos, g2b_indices, diff_grand, detail_str, is_reverse) ==
    LET order == CommitOrder(s, layer_name, pos, g2b_indices, diff_grand, detail_str,
                             is_reverse)
    IN  order[Len(order)]

\* --------------------------------------------------- D. layers 1-6
\* The six calls with the PAN Level call made first (C27 depends on Layers
\* 1 and 2 running before Layer 6).
StdLayersPanFirst ==
    << [name |-> "Layer 6: PAN Level", join |-> "Inv_Basic", tolerance |-> "std",
        strict_tax_split |-> FALSE, use_pan |-> TRUE],
       [name |-> "Layer 1: Strict Match", join |-> "Inv_Basic", tolerance |-> "std",
        strict_tax_split |-> TRUE, use_pan |-> FALSE],
       [name |-> "Layer 2: Grand Total Match", join |-> "Inv_Basic", tolerance |-> "std",
        strict_tax_split |-> FALSE, use_pan |-> FALSE],
       [name |-> "Layer 3: High Tolerance", join |-> "Inv_Basic", tolerance |-> "high",
        strict_tax_split |-> FALSE, use_pan |-> FALSE],
       [name |-> "Layer 4: Numeric Only", join |-> "Inv_Num", tolerance |-> "std",
        strict_tax_split |-> FALSE, use_pan |-> FALSE],
       [name |-> "Layer 5: Last 4 Digits", join |-> "Inv_Last4", tolerance |-> "std",
        strict_tax_split |-> FALSE, use_pan |-> FALSE] >>

\* The six calls with the Numeric Only call made second and the Grand Total
\* call fourth (C3 depends on the order of the calls).
StdLayersSwapped ==
    << [name |-> "Layer 1: Strict Match", join |-> "Inv_Basic", tolerance |-> "std",
        strict_tax_split |-> TRUE, use_pan |-> FALSE],
       [name |-> "Layer 4: Numeric Only", join |-> "Inv_Num", tolerance |-> "std",
        strict_tax_split |-> FALSE, use_pan |-> FALSE],
       [name |-> "Layer 3: High Tolerance", join |-> "Inv_Basic", tolerance |-> "high",
        strict_tax_split |-> FALSE, use_pan |-> FALSE],
       [name |-> "Layer 2: Grand Total Match", join |-> "Inv_Basic", tolerance |-> "std",
        strict_tax_split |-> FALSE, use_pan |-> FALSE],
       [name |-> "Layer 5: Last 4 Digits", join |-> "Inv_Last4", tolerance |-> "std",
        strict_tax_split |-> FALSE, use_pan |-> FALSE],
       [name |-> "Layer 6: PAN Level", join |-> "Inv_Basic", tolerance |-> "std",
        strict_tax_split |-> FALSE, use_pan |-> TRUE] >>

\* Lines 527-538: the six calls of run_standard_layer.
StdLayers ==
    << [name |-> "Layer 1: Strict Match", join |-> "Inv_Basic", tolerance |-> "std",
        strict_tax_split |-> TRUE, use_pan |-> FALSE],
       [name |-> "Layer 2: Grand Total Match", join |-> "Inv_Basic", tolerance |-> "std",
        strict_tax_split |-> FALSE, use_pan |-> FALSE],
       [name |-> "Layer 3: High Tolerance", join |-> "Inv_Basic", tolerance |-> "high",
        strict_tax_split |-> FALSE, use_pan |-> FALSE],
       [name |-> "Layer 4: Numeric Only", join |-> "Inv_Num", tolerance |-> "std",
        strict_tax_split |-> FALSE, use_pan |-> FALSE],
       [name |-> "Layer 5: Last 4 Digits", join |-> "Inv_Last4", tolerance |-> "std",
        strict_tax_split |-> FALSE, use_pan |-> FALSE],
       [name |-> "Layer 6: PAN Level", join |-> "Inv_Basic", tolerance |-> "std",
        strict_tax_split |-> FALSE, use_pan |-> TRUE] >>

FuzzyName == "Layer 7: Fuzzy Match"
ReverseName == "Layer 8: Reverse Clubbing"

\* Every standard layer called with the high tolerance (C7 depends on the
\* tolerance each layer is called with).
LayerToleranceHigh(s, cfg) == s.tol_high

\* The tolerance a standard layer is called with.
LayerTolerance(s, cfg) == IF cfg.tolerance = "high" THEN s.tol_high ELSE s.tol_std

\* The mask with the invoice date as one more key (C10 depends on the date
\* being no key).
IsCandidateSameDate(cfg, row_cis, row_g2b) ==
    /\ row_g2b.Matching_Status = "Unmatched"
    /\ row_g2b[cfg.join] = row_cis[cfg.join]
    /\ row_g2b.DATE = row_cis.DATE
    /\ IF cfg.use_pan THEN row_g2b.Norm_PAN = row_cis.Norm_PAN
       ELSE row_g2b.Norm_GSTIN = row_cis.Norm_GSTIN

\* The mask without the supplier id (C29 depends on the rows of one
\* supplier id being the candidates of that supplier's groups alone).
IsCandidateAnySupplier(cfg, row_cis, row_g2b) ==
    /\ row_g2b.Matching_Status = "Unmatched"
    /\ row_g2b[cfg.join] = row_cis[cfg.join]

\* Lines 471-475: the mask of the rows a group's candidates are taken from.
IsCandidate(cfg, row_cis, row_g2b) ==
    /\ row_g2b.Matching_Status = "Unmatched"
    /\ row_g2b[cfg.join] = row_cis[cfg.join]
    /\ IF cfg.use_pan THEN row_g2b.Norm_PAN = row_cis.Norm_PAN
       ELSE row_g2b.Norm_GSTIN = row_cis.Norm_GSTIN

\* The amount rule with the taxable value and the tax compared separately
\* in every layer (C30 depends on Layer 2 comparing the grand totals).
IsMatchSplitOnly(strict_tax_split, row_cis, row_g2b, tolerance) ==
    /\ FLeq(FAbsDiff(row_cis.Taxable, row_g2b.Taxable), tolerance)
    /\ FLeq(FAbsDiff(row_cis.Tax, row_g2b.Tax), tolerance)

\* Lines 483-493: the amount rule.
IsMatch(strict_tax_split, row_cis, row_g2b, tolerance) ==
    IF strict_tax_split
    THEN /\ FLeq(FAbsDiff(row_cis.Taxable, row_g2b.Taxable), tolerance)
         /\ FLeq(FAbsDiff(row_cis.Tax, row_g2b.Tax), tolerance)
    ELSE FLeq(FAbsDiff(row_cis.Grand_Total, row_g2b.Grand_Total), tolerance)

\* Lines 497-518: the remark, as its parts.
StandardDetail(cfg, row_cis, row_g2b) ==
    LET diff_grand == FAbsDiff(row_cis.Grand_Total, row_g2b.Grand_Total)
        cis_date == to_datetime(row_cis.DATE)
        g2b_date == to_datetime(row_g2b.DATE)
    IN  << [part |-> IF cfg.use_pan THEN "PAN" ELSE "GSTIN"] >>
        \o (IF cfg.join = "Inv_Basic" THEN << [part |-> "Invoice Number"] >>
            ELSE IF cfg.join = "Inv_Num"
            THEN << [part |-> "Numeric Invoice", cis |-> row_cis.INVOICE,
                     g2b |-> row_g2b.INVOICE] >>
            ELSE << [part |-> "Last 4 Digits", cis |-> row_cis.INVOICE,
                     g2b |-> row_g2b.INVOICE] >>)
        \o (IF cfg.strict_tax_split
            THEN << [part |-> "Taxable Value"], [part |-> "Tax Amount"] >>
            ELSE << [part |-> "Grand Total", diff |-> Round2(diff_grand)] >>)
        \o (IF cis_date.ok /\ g2b_date.ok /\ cis_date = g2b_date
            THEN << [part |-> "Date"] >> ELSE <<>>)
        \o (IF cfg.use_pan /\ row_cis.Norm_GSTIN # row_g2b.Norm_GSTIN
            THEN << [part |-> "Note: Matched under different GSTIN",
                     gstin |-> row_g2b.Norm_GSTIN] >>
            ELSE <<>>)

\* The last candidate of the group that the amount rule accepts (C20
\* depends on the loop stopping at the first).
LastMatch(cfg, row_cis, g2b, tolerance) ==
    LET hits == { j \in 1..Len(g2b) : /\ IsCandidate(cfg, row_cis, g2b[j])
                                      /\ IsMatch(cfg.strict_tax_split, row_cis,
                                                 g2b[j], tolerance) }
    IN  IF hits = {} THEN 0 ELSE CHOOSE j \in hits : \A k \in hits : j >= k

\* The first candidate of the group, in reference-table order, that the
\* amount rule accepts; 0 when there is none.
FirstMatch(cfg, row_cis, g2b, tolerance) ==
    LET hits == { j \in 1..Len(g2b) : /\ IsCandidate(cfg, row_cis, g2b[j])
                                      /\ IsMatch(cfg.strict_tax_split, row_cis,
                                                 g2b[j], tolerance) }
    IN  IF hits = {} THEN 0 ELSE CHOOSE j \in hits : \A k \in hits : j <= k

\* The end of a layer's group loop with the count carried into the next
\* layer (C17 depends on each layer counting from 0).
LayerEndStepKeepCount(s, name, next_pc) ==
    IF s.idx > Len(s.cis_grouped)
    THEN [s EXCEPT !.match_stats = Append(@, <<name, s.count>>),
                   !.layer = @ + 1, !.idx = 1, !.pc = next_pc]
    ELSE s

\* The end of a layer's group loop: when the group just scanned was the
\* last, the layer's count is stored (line 524) and the next layer's loop
\* starts at the first group.
LayerEndStep(s, name, next_pc) ==
    IF s.idx > Len(s.cis_grouped)
    THEN [s EXCEPT !.match_stats = Append(@, <<name, s.count>>),
                   !.layer = @ + 1, !.idx = 1, !.count = 0, !.pc = next_pc]
    ELSE s

\* The skip without the test of the key (C21 depends on line 467).
SkipsGroupOnFlag(row_cis, key) == row_cis.Matched_Flag

\* Whether the group loop skips the group before it looks for candidates.
SkipsGroup(row_cis, key) == row_cis.Matched_Flag \/ Len(key) < MinKeyLen

\* Lines 459-524: one pass of the group loop of run_standard_layer (and,
\* after the last group, the end of the layer).
StandardIterationStep(s) ==
    LET cfg == StdLayers[s.layer]
        row_cis == s.cis_grouped[s.idx]
        tolerance == LayerTolerance(s, cfg)
        j == FirstMatch(cfg, row_cis, s.g2b_proc, tolerance)
        next_pc == IF s.layer < Len(StdLayers) THEN "layer" ELSE "fuzzy"
    IN  IF SkipsGroup(row_cis, row_cis[cfg.join]) \/ j = 0
        THEN LayerEndStep([s EXCEPT !.idx = @ + 1], cfg.name, next_pc)
        ELSE IF "DATE" \notin s.col_map_g2b
        THEN Raise(s)
        ELSE LET row_g2b == s.g2b_proc[j]
                 diff_grand == FAbsDiff(row_cis.Grand_Total, row_g2b.Grand_Total)
                 done == commit_match(s, cfg.name, s.idx, <<row_g2b.INDEX>>, diff_grand,
                                      StandardDetail(cfg, row_cis, row_g2b), FALSE)
             IN  LayerEndStep([done EXCEPT !.count = @ + 1, !.idx = @ + 1],
                              cfg.name, next_pc)

StandardIteration ==
    /\ pc = "layer"
    /\ Becomes(StandardIterationStep(S))

\* --------------------------------------------------- layer 7: fuzzy
\* Lines 568-571: the amount gate of the fuzzy layer.
PassesAmountGate(row_cis, row_g2b, tolerance) ==
    ~ FGreater(FAbsDiff(row_cis.Grand_Total, row_g2b.Grand_Total), tolerance)

\* The score test with 85 itself let through (C14 depends on the threshold
\* being strict).
BeatsBestFrom85(score, best_score) ==
    score.n >= FuzzyThreshold * score.d /\ ScoreGreater(score, best_score)

\* Line 577: whether a score replaces the best one so far.
BeatsBest(score, best_score) ==
    ScoreAbove(score, FuzzyThreshold) /\ ScoreGreater(score, best_score)

RECURSIVE FuzzyBest(_, _, _, _, _)
\* Lines 564-579: the loop over the candidates at positions cands of g2b;
\* best is the position of best_match (0 for None).
FuzzyBest(s, row_cis, cands, best, best_score) ==
    IF cands = <<>> THEN [best |-> best, best_score |-> best_score]
    ELSE LET row_g2b == s.g2b_proc[Head(cands)]
             score == get_similarity_score(s.USE_RAPIDFUZZ, row_cis.Inv_Basic,
                                           row_g2b.Inv_Basic)
         IN  IF PassesAmountGate(row_cis, row_g2b, s.tol_std) /\ BeatsBest(score, best_score)
             THEN FuzzyBest(s, row_cis, Tail(cands), Head(cands), score)
             ELSE FuzzyBest(s, row_cis, Tail(cands), best, best_score)

\* Lines 556-559: the candidates of a group in the fuzzy layer.
IsFuzzyCandidate(row_cis, row_g2b) ==
    /\ row_g2b.Matching_Status = "Unmatched"
    /\ row_g2b.Norm_GSTIN = row_cis.Norm_GSTIN

\* Line 583: the remark of a fuzzy match, as its parts.
FuzzyDetail(row_cis, row_g2b, best_score) ==
    << [part |-> "GSTIN"], [part |-> "Grand Total"],
       [part |-> "Fuzzy Invoice", cis |-> row_cis.Inv_Basic, g2b |-> row_g2b.Inv_Basic,
        similarity |-> ScoreInt(best_score)] >>

\* The leftover reference rows each left a group of its own (C13 depends on
\* the rows of one supplier id and invoice key being summed).
GroupG2bSingly(g2b) ==
    LET IsLeft(r) == r.Matching_Status = "Unmatched"
        left == SelectIdx(g2b, IsLeft)
    IN  [g \in 1..Len(left) |->
            [Norm_GSTIN |-> g2b[left[g]].Norm_GSTIN, Inv_Basic |-> g2b[left[g]].Inv_Basic,
             Grand_Total |-> g2b[left[g]].Grand_Total, INDEX |-> <<g2b[left[g]].INDEX>>]]

\* Lines 598-603: the leftover reference rows grouped by supplier id and
\* invoice key, with summed totals and the list of their INDEX.  The frame
\* is taken to hold each key once: the aggregation also names 'Inv_Basic'
\* ('first'), a group key, and reset_index() is taken to return the frame
\* described in the specification rather than to refuse the second
\* 'Inv_Basic' column.
GroupG2b(g2b) ==
    LET IsLeft(r) == r.Matching_Status = "Unmatched"
        left == SelectIdx(g2b, IsLeft)
        keyOf(r) == <<r.Norm_GSTIN, r.Inv_Basic>>
        keys == SortKeys({keyOf(g2b[left[n]]) : n \in 1..Len(left)})
        group(k) ==
            LET IsMember(r) == IsLeft(r) /\ keyOf(r) = k
                members == SelectIdx(g2b, IsMember)
            IN  [Norm_GSTIN |-> k[1], Inv_Basic |-> k[2],
                 Grand_Total |-> SumSeq([n \in 1..Len(members) |->
                                            g2b[members[n]].Grand_Total]),
                 INDEX |-> [n \in 1..Len(members) |-> g2b[members[n]].INDEX]]
    IN  [g \in 1..Len(keys) |-> group(keys[g])]

\* The start of run_reverse_clubbing, once the fuzzy layer has ended.
ReverseGroupingStep(s) ==
    IF s.pc = "reverse" THEN [s EXCEPT !.g2b_grouped = GroupG2b(s.g2b_proc)] ELSE s

\* Lines 546-587: one pass of the group loop of run_fuzzy_layer (and, after
\* the last group, the end of the layer and the grouping layer 8 starts
\* with).
FuzzyIterationStep(s) ==
    LET row_cis == s.cis_grouped[s.idx]
        IsCand(r) == IsFuzzyCandidate(row_cis, r)
        g2b_candidates == SelectIdx(s.g2b_proc, IsCand)
        found == FuzzyBest(s, row_cis, g2b_candidates, 0, ZeroScore)
        after == IF row_cis.Matched_Flag \/ Len(row_cis.Inv_Basic) < MinFuzzyLen
                    \/ found.best = 0
                 THEN [s EXCEPT !.idx = @ + 1]
                 ELSE LET best_match == s.g2b_proc[found.best]
                          diff_grand == FAbsDiff(row_cis.Grand_Total,
                                                 best_match.Grand_Total)
                          done == commit_match(s, FuzzyName, s.idx, <<best_match.INDEX>>,
                                               diff_grand,
                                               FuzzyDetail(row_cis, best_match,
                                                           found.best_score),
                                               FALSE)
                      IN  [done EXCEPT !.count = @ + 1, !.idx = @ + 1]
    IN  ReverseGroupingStep(LayerEndStep(after, FuzzyName, "reverse"))

FuzzyIteration ==
    /\ pc = "fuzzy"
    /\ Becomes(FuzzyIterationStep(S))

\* --------------------------------------------------- layer 8: reverse
\* Lines 612-615: the reference group a source group is looked up by.
IsReverseMatchRow(row_cis, row_g2b_group) ==
    /\ row_g2b_group.Norm_GSTIN = row_cis.Norm_GSTIN
    /\ row_g2b_group.Inv_Basic = row_cis.Inv_Basic

\* Line 625: the remark of a reverse-clubbing match, as its parts.
ReverseDetail(g2b_indices, diff_grand) ==
    << [part |-> "GSTIN"], [part |-> "Invoice Number"],
       [part |-> "Reverse Clubbing", records |-> Len(g2b_indices),
        diff |-> Round2(diff_grand)] >>

\* Line 623: the amount rule of reverse clubbing.
ReverseAccepts(diff_grand, tolerance) == FLeq(diff_grand, tolerance)

\* Lines 605-631: one pass of the group loop of run_reverse_clubbing (and,
\* after the last group, the end of the layer).
ReverseIterationStep(s) ==
    LET row_cis == s.cis_grouped[s.idx]
        IsRow(r) == IsReverseMatchRow(row_cis, r)
        match_row == SelectIdx(s.g2b_grouped, IsRow)
        skipped == [s EXCEPT !.idx = @ + 1]
        after ==
            IF row_cis.Matched_Flag \/ match_row = <<>> THEN skipped
            ELSE LET row_g2b_group == s.g2b_grouped[match_row[1]]
                     diff_grand == FAbsDiff(row_cis.Grand_Total,
                                            row_g2b_group.Grand_Total)
                 IN  IF ReverseAccepts(diff_grand, s.tol_std)
                     THEN LET flagged == [s EXCEPT
                                            !.cis_grouped[s.idx].Matched_Flag = TRUE]
                              done == commit_match(flagged, ReverseName, s.idx,
                                                   row_g2b_group.INDEX, diff_grand,
                                                   ReverseDetail(row_g2b_group.INDEX,
                                                                 diff_grand),
                                                   TRUE)
                          IN  [done EXCEPT !.count = @ + 1, !.idx = @ + 1]
                     ELSE skipped
    IN  LayerEndStep(after, ReverseName, "finalize")

ReverseIteration ==
    /\ pc = "reverse"
    /\ Becomes(ReverseIterationStep(S))

\* --------------------------------------------------- cleanup, time barred
\* The columns dropped from the returned tables.
drop_cols == {"Norm_GSTIN", "Norm_PAN", "Inv_Basic", "Inv_Num", "Inv_Last4",
              "Taxable", "Tax", "Grand_Total", "D_Obj"}

DropCols(r) == [f \in (DOMAIN r) \ drop_cols |-> r[f]]

\* Lines 638-641: the remarks of a row that is still Unmatched.
MarkNotFound(r) ==
    IF r.Matching_Status = "Unmatched"
    THEN [r EXCEPT !.Detailed_Remark =
                       << [part |-> "Mismatch: Invoice Number not found in GSTR-2B"] >>,
                   !.Short_Remark = "Not Found"]
    ELSE r

\* Lines 644-649: the time-barred flag of a row.
MarkTimeBarred(r) ==
    LET D_Obj == to_datetime(r.DATE)
    IN  IF D_Obj.ok /\ DateLess(D_Obj, cutoff)
        THEN [r EXCEPT !.Short_Remark = @ \o " + Time Barred",
                       !.Detailed_Remark =
                           Append(@, [part |-> "[Warning: Date < 31 Mar 2024]"])]
        ELSE r

\* Lines 638-659.
FinalizeStep(s) ==
    LET marked == [i \in 1..Len(s.cis_proc) |-> MarkTimeBarred(MarkNotFound(s.cis_proc[i]))]
    IN  [s EXCEPT !.cis_proc = marked,
                  !.cis_final = [i \in 1..Len(marked) |-> DropCols(marked[i])],
                  !.g2b_final = [j \in 1..Len(s.g2b_proc) |-> DropCols(s.g2b_proc[j])],
                  !.pc = "done"]

Finalize ==
    /\ pc = "finalize"
    /\ Becomes(FinalizeStep(S))

\* --------------------------------------------------- the call, as a function
\* Lines 326-659: the step the run takes from state s.
RunStep(s) ==
    CASE s.pc = "preprocess" -> PreprocessStep(s)
      [] s.pc = "grouping" -> GroupingStep(s)
      [] s.pc = "layer" -> StandardIterationStep(s)
      [] s.pc = "fuzzy" -> FuzzyIterationStep(s)
      [] s.pc = "reverse" -> ReverseIterationStep(s)
      [] s.pc = "finalize" -> FinalizeStep(s)
      [] OTHER -> s

RECURSIVE Run(_)
\* run_8_layer_reconciliation from state s to its return (or its error).
Run(s) == IF s.pc \in {"done", "error"} THEN s ELSE Run(RunStep(s))

\* The state a call with the inputs of s starts in.
Started(s) ==
    [s EXCEPT !.cis_proc = <<>>, !.g2b_proc = <<>>, !.cis_grouped = <<>>,
              !.g2b_grouped = <<>>, !.match_stats = <<>>, !.audit_log = <<>>,
              !.cis_final = <<>>, !.g2b_final = <<>>, !.pc = "preprocess",
              !.layer = 0, !.idx = 0, !.count = 0]

\* --------------------------------------------------- the run
Next ==
    \/ Preprocess
    \/ Grouping
    \/ StandardIteration
    \/ FuzzyIteration
    \/ ReverseIteration
    \/ Finalize

Spec == Init /\ [][Next]_vars

\* The run called with an incomplete field mapping.
SpecMap == InitMap /\ [][Next]_vars

\* The run on invoices the two similarity imports score differently.
SpecEnv == InitEnv /\ [][Next]_vars

\* The run on source rows that differ in their invoice dates.
SpecDate == InitDate /\ [][Next]_vars

\* The run on two registrations of one PAN.
SpecPan == InitPan /\ [][Next]_vars

\* The run on an invoice the reference table has in two entries.
SpecRev == InitRev /\ [][Next]_vars

\* The run layer 7 decides.
SpecFuzzy == InitFuzzy /\ [][Next]_vars

\* The run on the Help tab's example of Layer 7.
SpecTypo == InitTypo /\ [][Next]_vars

\* The run started from the page with either checkbox checked or unchecked.
SpecSwitch == InitSwitch /\ [][Next]_vars

\* The run on records without a supplier id.
SpecNoGstin == InitNoGstin /\ [][Next]_vars

\* The run Layer 3 decides.
SpecHigh == InitHigh /\ [][Next]_vars

SpecClub == InitClub /\ [][Next]_vars

SpecOrder == InitOrder /\ [][Next]_vars

\* ===================================================================
\* The claims
\* ===================================================================
\* The stages at which the working tables exist.
Working == {"grouping", "layer", "fuzzy", "reverse", "finalize", "done"}
\* The stages at which the groups exist.
Scanning == {"layer", "fuzzy", "reverse", "finalize", "done"}

\* ------------------------------------------------------------------ C1
\* Row i of an output table is source record i: its id and its input cells.
IsRecordOf(out, i) ==
    /\ out.Index_CIS = i
    /\ \A f \in RequiredKeys : out[f] = cis_df[i][f]

StatusCount(t, status) ==
    Cardinality({i \in 1..Len(t) : t[i].Matching_Status = status})

\* Every source record is in table t exactly once, Matched or Unmatched.
Conserved(t) ==
    /\ Len(t) = Len(cis_df)
    /\ \A i \in 1..Len(t) : /\ IsRecordOf(t[i], i)
                             /\ t[i].Matching_Status \in {"Matched", "Unmatched"}
    /\ StatusCount(t, "Matched") + StatusCount(t, "Unmatched") = Len(cis_df)

\* C1 (conservation): when the run has returned, every source record of the
\* input is in the annotated source table exactly once, with Matching Status
\* Matched or Unmatched, so the Matched and the Unmatched records together
\* are as many as the input's records; the same holds of the working table
\* at every stage of the run, for every input and pair of tolerances.
C1_Conservation ==
    /\ pc = "done" => Conserved(cis_final)
    /\ pc \in Working => Conserved(cis_proc)

\* A finished run with a Matched and an Unmatched source record.
C1_Witness ==
    /\ pc = "done"
    /\ StatusCount(cis_final, "Matched") > 0
    /\ StatusCount(cis_final, "Unmatched") > 0

\* ------------------------------------------------------------------ C2
IdsOf(q) == {q[n] : n \in 1..Len(q)}

\* No source record and no reference row is in two audit entries.
C2AtMostOnce ==
    \A a, b \in 1..Len(audit_log) :
        a # b => /\ IdsOf(audit_log[a].cis_ids) \cap IdsOf(audit_log[b].cis_ids) = {}
                 /\ IdsOf(audit_log[a].g2b_ids) \cap IdsOf(audit_log[b].g2b_ids) = {}

\* What one step of the run leaves alone: a flagged group, a Matched
\* reference row, and the status, category and cross-reference of a Matched
\* source record; it commits at most once, and then a group that was not
\* flagged (which is flagged after it) and reference rows that were
\* Unmatched.
C2Step ==
    /\ \A g \in 1..Len(cis_grouped) :
            cis_grouped[g].Matched_Flag => cis_grouped'[g] = cis_grouped[g]
    /\ \A j \in 1..Len(g2b_proc) :
            g2b_proc[j].Matching_Status = "Matched" => g2b_proc'[j] = g2b_proc[j]
    /\ \A i \in 1..Len(cis_proc) :
            cis_proc[i].Matching_Status = "Matched" =>
                /\ cis_proc'[i].Matching_Status = "Matched"
                /\ cis_proc'[i].Match_Category = cis_proc[i].Match_Category
                /\ cis_proc'[i].GSTR_2B_Key = cis_proc[i].GSTR_2B_Key
    /\ Len(audit_log') \in {Len(audit_log), Len(audit_log) + 1}
    /\ SubSeq(audit_log', 1, Len(audit_log)) = audit_log
    /\ Len(audit_log') > Len(audit_log) =>
            LET e == audit_log'[Len(audit_log')]
            IN  /\ \E g \in 1..Len(cis_grouped) :
                        /\ ~ cis_grouped[g].Matched_Flag
                        /\ cis_grouped'[g].Matched_Flag
                        /\ cis_grouped[g].Index_CIS = e.cis_ids
                /\ e.g2b_ids # <<>>
                /\ \A j \in 1..Len(g2b_proc) :
                        g2b_proc[j].INDEX \in IdsOf(e.g2b_ids) =>
                            /\ g2b_proc[j].Matching_Status = "Unmatched"
                            /\ g2b_proc'[j].Matching_Status = "Matched"

\* C2 (monotonic exclusion): over the whole run every source group is
\* committed at most once and every reference row is consumed by at most one
\* commit; a group whose flag is set and a reference row that is Matched are
\* not committed again, nor changed, by any later scan of any layer.
C2_MonotonicExclusion == [][C2Step /\ C2AtMostOnce']_vars

\* A group scanned by a standard layer, not yet flagged, for which a
\* reference row that is already Matched would pass the layer's key and
\* amount tests if it were still Unmatched.
C2_Witness ==
    /\ pc = "layer"
    /\ ~ cis_grouped[idx].Matched_Flag
    /\ ~ SkipsGroup(cis_grouped[idx], cis_grouped[idx][StdLayers[layer].join])
    /\ \E j \in 1..Len(g2b_proc) :
            /\ g2b_proc[j].Matching_Status = "Matched"
            /\ IsCandidate(StdLayers[layer], cis_grouped[idx],
                           [g2b_proc[j] EXCEPT !.Matching_Status = "Unmatched"])
            /\ IsMatch(StdLayers[layer].strict_tax_split, cis_grouped[idx], g2b_proc[j],
                       LayerTolerance(S, StdLayers[layer]))

\* ------------------------------------------------------------------ C3
\* Reference row r meets Layer 2's criteria for group g: it is Unmatched, has
\* the same supplier id and the same punctuation-stripped invoice key (a key
\* of fewer than MinKeyLen characters is absent), and the grand totals, as
\* the run computes them, differ by at most the standard tolerance.
MeetsLayer2(g, r) ==
    /\ r.Matching_Status = "Unmatched"
    /\ r.Norm_GSTIN = g.Norm_GSTIN
    /\ r.Inv_Basic = g.Inv_Basic
    /\ Len(g.Inv_Basic) >= MinKeyLen
    /\ FLeq(FAbsDiff(g.Grand_Total, r.Grand_Total), tol_std)

\* The same for Layer 4, whose key is the digits of the invoice number.
MeetsLayer4(g, r) ==
    /\ r.Matching_Status = "Unmatched"
    /\ r.Norm_GSTIN = g.Norm_GSTIN
    /\ r.Inv_Num = g.Inv_Num
    /\ Len(g.Inv_Num) >= MinKeyLen
    /\ FLeq(FAbsDiff(g.Grand_Total, r.Grand_Total), tol_std)

\* The members of group g have Match Category cat in table proc.
MembersHave(proc, g, cat) ==
    \A i \in 1..Len(proc) :
        proc[i].Index_CIS \in IdsOf(g.Index_CIS) => proc[i].Match_Category = cat

\* Group g has a candidate that qualifies for the layer that is running.
HasQualifying(g) ==
    CASE pc = "layer" ->
            /\ ~ SkipsGroup(g, g[StdLayers[layer].join])
            /\ \E j \in 1..Len(g2b_proc) :
                    /\ IsCandidate(StdLayers[layer], g, g2b_proc[j])
                    /\ IsMatch(StdLayers[layer].strict_tax_split, g, g2b_proc[j],
                               LayerTolerance(S, StdLayers[layer]))
      [] pc = "fuzzy" ->
            /\ Len(g.Inv_Basic) >= MinFuzzyLen
            /\ \E j \in 1..Len(g2b_proc) :
                    /\ IsFuzzyCandidate(g, g2b_proc[j])
                    /\ PassesAmountGate(g, g2b_proc[j], tol_std)
                    /\ ScoreAbove(get_similarity_score(USE_RAPIDFUZZ, g.Inv_Basic,
                                                       g2b_proc[j].Inv_Basic),
                                  FuzzyThreshold)
      [] pc = "reverse" ->
            \E n \in 1..Len(g2b_grouped) :
                /\ IsReverseMatchRow(g, g2b_grouped[n])
                /\ \A o \in 1..(n - 1) : ~ IsReverseMatchRow(g, g2b_grouped[o])
                /\ ReverseAccepts(FAbsDiff(g.Grand_Total, g2b_grouped[n].Grand_Total),
                                  tol_std)
      [] OTHER -> FALSE

\* The name of the layer that is running.
RunningLayer ==
    CASE pc = "layer" -> StdLayers[layer].name
      [] pc = "fuzzy" -> FuzzyName
      [] pc = "reverse" -> ReverseName
      [] OTHER -> ""

\* One step of the run, as C3 has it.
C3Step ==
    \* Layer 2 scanning a group with a row that Layer 2 and Layer 4 would take
    /\ ( /\ pc = "layer" /\ layer = 2
         /\ ~ cis_grouped[idx].Matched_Flag
         /\ \E j \in 1..Len(g2b_proc) : /\ MeetsLayer2(cis_grouped[idx], g2b_proc[j])
                                         /\ MeetsLayer4(cis_grouped[idx], g2b_proc[j]) )
       => MembersHave(cis_proc', cis_grouped[idx], "Layer 2: Grand Total Match")
    \* a group that Layer 2 finds flagged was taken by Layer 1
    /\ (pc = "layer" /\ layer = 2 /\ cis_grouped[idx].Matched_Flag)
       => MembersHave(cis_proc, cis_grouped[idx], "Layer 1: Strict Match")
    \* any layer scanning a group that has a qualifying candidate commits it
    /\ (pc \in {"layer", "fuzzy", "reverse"} /\ ~ cis_grouped[idx].Matched_Flag
           /\ HasQualifying(cis_grouped[idx]))
       => /\ cis_grouped'[idx].Matched_Flag
          /\ MembersHave(cis_proc', cis_grouped[idx], RunningLayer)
    \* and a group it commits was not flagged
    /\ \A g \in 1..Len(cis_grouped) :
            (~ cis_grouped[g].Matched_Flag /\ cis_grouped'[g].Matched_Flag)
            => g = idx /\ MembersHave(cis_proc', cis_grouped[g], RunningLayer)
    \* a category, once given, stays to the end of the run
    /\ \A i \in 1..Len(cis_proc) :
            cis_proc[i].Match_Category # "" =>
                cis_proc'[i].Match_Category = cis_proc[i].Match_Category
    /\ pc' = "done" =>
            \A i \in 1..Len(cis_proc) :
                cis_final'[i].Match_Category = cis_proc[i].Match_Category

\* C3 (earliest-layer attribution): when Layer 2 scans a group that has an
\* Unmatched reference row meeting Layer 2's criteria and Layer 4's, the
\* group's members get the Layer 2 category (the Layer 1 category if Layer 1
\* took the group before) and keep it to the end of the run; in general a
\* layer that scans a group with a qualifying Unmatched candidate commits the
\* group, so a group committed by layer k had none when layers 1..k-1
\* scanned it.
C3_EarliestLayer == [][C3Step]_vars

\* Layer 2 about to scan a group, not yet flagged, that has an Unmatched row
\* meeting both Layer 2's and Layer 4's criteria.
C3_Witness ==
    /\ pc = "layer" /\ layer = 2
    /\ ~ cis_grouped[idx].Matched_Flag
    /\ \E j \in 1..Len(g2b_proc) : /\ MeetsLayer2(cis_grouped[idx], g2b_proc[j])
                                    /\ MeetsLayer4(cis_grouped[idx], g2b_proc[j])

\* ------------------------------------------------------------------ C4
\* Scenario A: two source lines of one supplier and invoice (taxable 6000 and
\* 4000, IGST 1080 and 720), in either order, and one reference line of the
\* supplier with the invoice written with other punctuation (taxable 10000,
\* IGST 1800).
ScenarioA ==
    LET line6000 == Row(GSTIN_A_RAW, INV_A, DATE_OLD, Whole(6000), Whole(1080),
                        Whole(0), Whole(0))
        line4000 == Row(GSTIN_A_RAW, INV_A, DATE_NEW, Whole(4000), Whole(720),
                        Whole(0), Whole(0))
        reference == Row(GSTIN_A, INV_A_PUNCT, DATE_OLD, Whole(10000), Whole(1800),
                         Whole(0), Whole(0))
    IN  /\ cis_df \in { <<line6000, line4000>>, <<line4000, line6000>> }
        /\ gstr2b_df = <<reference>>

\* The two source lines are one group with grand total 11800.
OneGroupOf11800 ==
    /\ Len(cis_grouped) = 1
    /\ cis_grouped[1].Index_CIS = <<1, 2>>
    /\ cis_grouped[1].Grand_Total = Float(1180000, 0)

\* C4 as claimed: in Scenario A the source lines form one group with grand
\* total 11800 and both end with the Match Category of Layer 2.
C4_ScenarioA_Layer2 ==
    (ScenarioA /\ pc = "done") =>
        /\ OneGroupOf11800
        /\ \A i \in 1..2 : cis_final[i].Match_Category = "Layer 2: Grand Total Match"

\* C4, amended (Scenario A): the source lines form one group with grand
\* total 11800, and the group is committed by Layer 1 (Strict Match): from
\* the end of Layer 1 on, both source lines are Matched with the Match
\* Category of Layer 1, and they end the run with it.
C4_ScenarioA_Layer1 ==
    ScenarioA =>
        /\ pc \in Scanning => OneGroupOf11800
        /\ (pc \in Scanning /\ ~ (pc = "layer" /\ layer = 1)) =>
                \A i \in 1..2 : /\ cis_proc[i].Matching_Status = "Matched"
                                /\ cis_proc[i].Match_Category = "Layer 1: Strict Match"
        /\ pc = "done" =>
                \A i \in 1..2 : /\ cis_final[i].Matching_Status = "Matched"
                                /\ cis_final[i].Match_Category = "Layer 1: Strict Match"

\* Scenario A, run to its end, with the one audit entry that Layer 1 wrote.
C4_Witness ==
    /\ ScenarioA /\ pc = "done"
    /\ OneGroupOf11800
    /\ Len(audit_log) = 1
    /\ audit_log[1].layer = "Layer 1: Strict Match"
    /\ audit_log[1].cis_ids = <<1, 2>>

\* ------------------------------------------------------------------ C5
\* The group loops of all layers go through cis_grouped from its first row
\* to its last, so the order of the scan is the order of cis_grouped.
\* The group that audit entry e committed.
GroupOf(e) == CHOOSE g \in 1..Len(cis_grouped) : cis_grouped[g].Index_CIS = e.cis_ids

\* C5 as claimed: the groups are scanned in the order in which their first
\* members appear in the source table.
C5_InputOrder ==
    pc \in Scanning =>
        \A g, h \in 1..Len(cis_grouped) :
            g < h => cis_grouped[g].Index_CIS[1] < cis_grouped[h].Index_CIS[1]

\* C5, amended (group scan order): in every layer the groups are scanned in
\* ascending order of their key (normalised supplier id, PAN prefix,
\* punctuation-stripped invoice key, compared as text), whatever the order
\* of their members in the source table; the commits of one layer are made,
\* and logged, in that order, so of two groups competing for a reference row
\* the one with the smaller key wins it.
C5_KeyOrder ==
    pc \in Scanning =>
        /\ \A g, h \in 1..Len(cis_grouped) :
                g < h => KeyLess(CisKeyOf(cis_grouped[g]), CisKeyOf(cis_grouped[h]))
        /\ \A a, b \in 1..Len(audit_log) :
                (a < b /\ audit_log[a].layer = audit_log[b].layer) =>
                    KeyLess(CisKeyOf(cis_grouped[GroupOf(audit_log[a])]),
                            CisKeyOf(cis_grouped[GroupOf(audit_log[b])]))

\* A finished run in which the two source rows are two groups that both
\* met Layer 4's criteria for the one reference row: the row went to the
\* group of the second source row, whose key is the smaller, and the first
\* source row is left Unmatched.
C5_Witness ==
    /\ pc = "done"
    /\ Len(cis_final) = 2 /\ Len(g2b_proc) = 1 /\ Len(cis_grouped) = 2
    /\ cis_grouped[1].Index_CIS = <<2>>
    /\ cis_grouped[2].Index_CIS = <<1>>
    /\ cis_final[1].Matching_Status = "Unmatched"
    /\ cis_final[2].Match_Category = "Layer 4: Numeric Only"
    /\ \A g \in 1..2 :
            MeetsLayer4(cis_grouped[g],
                        [g2b_proc[1] EXCEPT !.Matching_Status = "Unmatched"])

\* ------------------------------------------------------------------ C6
\* The difference of two amounts as they are written, in hundredths (the
\* smallest currency unit).
UnitsApart(a, b) ==
    IF Round2(a) >= Round2(b) THEN Round2(a) - Round2(b) ELSE Round2(b) - Round2(a)

\* A rule with tolerance t, at a difference of d units, accepts when d is the
\* tolerance and rejects when d is one unit more.
AtBoundary(d, t, accepted) ==
    /\ d = Round2(t) => accepted
    /\ d = Round2(t) + 1 => ~ accepted

\* C6 (tolerance boundary): in every layer's amount rule a candidate whose
\* difference is exactly the layer's tolerance is accepted, and one whose
\* difference is the tolerance plus one smallest currency unit is rejected:
\* Layer 1 for the taxable and the tax difference, Layers 2 to 8 for the
\* grand-total difference (Layer 3 with the high tolerance), for every
\* group and reference row (reference group, for Layer 8) of the run.
C6_ToleranceBoundary ==
    pc \in {"layer", "fuzzy", "reverse"} =>
        \A g \in 1..Len(cis_grouped) :
            /\ \A j \in 1..Len(g2b_proc) :
                    LET row_cis == cis_grouped[g]
                        row_g2b == g2b_proc[j]
                        d_taxable == UnitsApart(row_cis.Taxable, row_g2b.Taxable)
                        d_tax == UnitsApart(row_cis.Tax, row_g2b.Tax)
                        d_grand == UnitsApart(row_cis.Grand_Total, row_g2b.Grand_Total)
                        t == Round2(tol_std)
                        strict == IsMatch(TRUE, row_cis, row_g2b, tol_std)
                    IN  /\ ((d_taxable = t /\ d_tax <= t) \/ (d_tax = t /\ d_taxable <= t))
                                => strict
                        /\ (d_taxable = t + 1 \/ d_tax = t + 1) => ~ strict
                        /\ AtBoundary(d_grand, tol_std,
                                      IsMatch(FALSE, row_cis, row_g2b, tol_std))
                        /\ AtBoundary(d_grand, tol_high,
                                      IsMatch(FALSE, row_cis, row_g2b, tol_high))
                        /\ AtBoundary(d_grand, tol_std,
                                      PassesAmountGate(row_cis, row_g2b, tol_std))
            /\ \A n \in 1..Len(g2b_grouped) :
                    AtBoundary(UnitsApart(cis_grouped[g].Grand_Total,
                                          g2b_grouped[n].Grand_Total),
                               tol_std,
                               ReverseAccepts(FAbsDiff(cis_grouped[g].Grand_Total,
                                                       g2b_grouped[n].Grand_Total),
                                              tol_std))

\* A finished run with a standard tolerance of 2.00 in which a source
\* record and a reference row of the same supplier and invoice, whose
\* amounts are written exactly 2.00 apart, are both left Unmatched.
C6_Witness ==
    /\ pc = "done"
    /\ Round2(tol_std) = 200
    /\ \E i \in 1..Len(cis_proc), j \in 1..Len(g2b_proc) :
            /\ cis_final[i].Matching_Status = "Unmatched"
            /\ g2b_final[j].Matching_Status = "Unmatched"
            /\ \E g \in 1..Len(cis_grouped) : cis_grouped[g].Index_CIS = <<i>>
            /\ cis_proc[i].Norm_GSTIN = g2b_proc[j].Norm_GSTIN
            /\ cis_proc[i].Inv_Basic = g2b_proc[j].Inv_Basic
            /\ Len(cis_proc[i].Inv_Basic) >= MinKeyLen
            /\ UnitsApart(cis_proc[i].Grand_Total, g2b_proc[j].Grand_Total) = 200

\* ------------------------------------------------------------------ C7
\* The difference recorded in audit entry e is at most b hundredths.
RecordedWithin(e, b) == e.difference <= b

\* C7 as claimed: the difference recorded for a commit of Layers 1, 2, 4, 5,
\* 6, 7 and 8 is at most the standard tolerance, and for a commit of Layer 3
\* at most the high tolerance.
C7_RecordedWithinTolerance ==
    \A n \in 1..Len(audit_log) :
        IF audit_log[n].layer = "Layer 3: High Tolerance"
        THEN RecordedWithin(audit_log[n], Round2(tol_high))
        ELSE RecordedWithin(audit_log[n], Round2(tol_std))

\* C7, amended (tolerance bounds every accepted match): the grand-total
\* difference recorded in the audit entry is at most the standard tolerance
\* for a commit of Layers 2, 4, 5, 6, 7 and 8, at most the high tolerance for
\* a commit of Layer 3, and at most twice the standard tolerance for a
\* commit of Layer 1, which bounds the taxable and the tax difference each by
\* the standard tolerance and not their sum.
C7_RecordedWithinBound ==
    \A n \in 1..Len(audit_log) :
        CASE audit_log[n].layer = "Layer 3: High Tolerance" ->
                RecordedWithin(audit_log[n], Round2(tol_high))
          [] audit_log[n].layer = "Layer 1: Strict Match" ->
                RecordedWithin(audit_log[n], 2 * Round2(tol_std))
          [] OTHER ->
                RecordedWithin(audit_log[n], Round2(tol_std))

\* An audit log with a Layer 1 entry whose difference is above the standard
\* tolerance, and an entry of a later layer whose difference is exactly
\* the standard tolerance.
C7_Witness ==
    /\ \E n \in 1..Len(audit_log) :
            /\ audit_log[n].layer = "Layer 1: Strict Match"
            /\ audit_log[n].difference > Round2(tol_std)
    /\ \E n \in 1..Len(audit_log) :
            /\ audit_log[n].layer \notin {"Layer 1: Strict Match", "Layer 3: High Tolerance"}
            /\ audit_log[n].difference = Round2(tol_std)

\* ------------------------------------------------------------------ C8
MappingIncomplete == col_map_cis # RequiredKeys \/ col_map_g2b # RequiredKeys

\* C8 (missing mapping is fatal before matching): when one of the seven
\* required entries is absent from the source mapping or from the reference
\* mapping, the run gets no further than the grouping: it fails with an
\* error before Layer 1 starts, no record is matched and no audit entry is
\* appended.
C8_MissingMappingFatal ==
    MappingIncomplete =>
        /\ pc \in {"preprocess", "grouping"} \/ (pc = "error" /\ layer = 0)
        /\ audit_log = <<>>
        /\ \A i \in 1..Len(cis_proc) : cis_proc[i].Matching_Status = "Unmatched"
        /\ \A j \in 1..Len(g2b_proc) : g2b_proc[j].Matching_Status = "Unmatched"

\* A run with an incomplete mapping that returned, with a commit in its
\* audit log.
C8_Witness ==
    /\ MappingIncomplete
    /\ pc = "done"
    /\ audit_log # <<>>
    /\ \E i \in 1..Len(cis_final) : cis_final[i].Matching_Status = "Matched"

\* ------------------------------------------------------------------ C9
\* What the call returns: both tables, the per-layer counts and the audit
\* log (whose entries are kept without their timestamp).
Returned(s) ==
    [cis |-> s.cis_final, g2b |-> s.g2b_final, match_stats |-> s.match_stats,
     audit_log |-> s.audit_log, pc |-> s.pc]

\* The call on the same tables, mappings and tolerances where the other
\* similarity import succeeded.
OtherImportRun == Run(Started([S EXCEPT !.USE_RAPIDFUZZ = ~@]))

\* C9 (determinism): a run on the same source table, reference table, field
\* mappings and tolerances returns the same status, category, cross-reference
\* ids and remarks for every record, the same per-layer counts and the same
\* audit log, whichever similarity import the process it runs in has made.
C9_Determinism ==
    pc \in {"done", "error"} => Returned(S) = Returned(OtherImportRun)

\* A run that matched "1111" to "12111" in Layer 7 where the run on the same
\* inputs under the other import leaves the record Unmatched.
C9_Witness ==
    /\ pc = "done"
    /\ USE_RAPIDFUZZ
    /\ Len(cis_final) = 1
    /\ cis_final[1].Matching_Status = "Matched"
    /\ cis_final[1].Match_Category = FuzzyName
    /\ OtherImportRun.pc = "done"
    /\ OtherImportRun.cis_final[1].Matching_Status = "Unmatched"
    /\ OtherImportRun.audit_log = <<>>

\* ----------------------------------------------------------------- C10
\* Table t with every invoice date blanked.
WithoutDates(t) == [i \in 1..Len(t) |-> [t[i] EXCEPT !.DATE = ""]]

\* The call on the same inputs but for the invoice dates, which are all
\* blank.
DatelessRun ==
    Run(Started([S EXCEPT !.cis_df = WithoutDates(@), !.gstr2b_df = WithoutDates(@)]))

\* Status, category and cross-reference ids of every record, and the
\* per-layer counts.
Matching(s) ==
    [cis |-> [i \in 1..Len(s.cis_final) |->
                 << s.cis_final[i].Matching_Status, s.cis_final[i].Match_Category,
                    s.cis_final[i].GSTR_2B_Key >>],
     g2b |-> [j \in 1..Len(s.g2b_final) |->
                 << s.g2b_final[j].Matching_Status, s.g2b_final[j].CIS_Key >>],
     match_stats |-> s.match_stats]

\* C10 (dates never gate a match): a run returns the same Matching Status,
\* Match Category and cross-reference ids for every source and reference
\* record, and the same per-layer counts, as the run on the inputs that differ
\* from its own only in the invoice dates, all of them blank; so any two runs
\* whose inputs differ only in the invoice dates return the same.
C10_DatesNeverGate ==
    pc = "done" => /\ DatelessRun.pc = "done"
                   /\ Matching(S) = Matching(DatelessRun)

\* A source record with an unparsable date matched to a reference row with a
\* date before the cut-off, and a source record with a date matched to a
\* reference row with another date.
C10_Witness ==
    /\ pc = "done"
    /\ \E i \in 1..Len(cis_final), j \in 1..Len(g2b_final) :
            /\ cis_final[i].Matching_Status = "Matched"
            /\ cis_final[i].GSTR_2B_Key = <<g2b_final[j].INDEX>>
            /\ ~ to_datetime(cis_final[i].DATE).ok
            /\ to_datetime(g2b_final[j].DATE).ok
    /\ \E i \in 1..Len(cis_final), j \in 1..Len(g2b_final) :
            /\ cis_final[i].Matching_Status = "Matched"
            /\ cis_final[i].GSTR_2B_Key = <<g2b_final[j].INDEX>>
            /\ to_datetime(cis_final[i].DATE).ok
            /\ to_datetime(g2b_final[j].DATE).ok
            /\ cis_final[i].DATE # g2b_final[j].DATE

\* ----------------------------------------------------------------- C11
\* The text is a date strictly before 2024-03-31.
BeforeCutoff(text) ==
    LET d == to_datetime(text)
    IN  d.ok /\ 10000 * d.y + 100 * d.m + d.d < 20240331

TimeBarredShort == " + Time Barred"
TimeBarredDetail == [part |-> "[Warning: Date < 31 Mar 2024]"]

\* The remarks record r has when the eight layers have finished, before the
\* flag: those of its commit, or those of a record that found no match.
ShortBefore(r) == IF r.Matching_Status = "Matched" THEN r.Short_Remark ELSE "Not Found"
DetailBefore(r) ==
    IF r.Matching_Status = "Matched" THEN r.Detailed_Remark
    ELSE << [part |-> "Mismatch: Invoice Number not found in GSTR-2B"] >>

SharePanOnly(gstin1, gstin2) ==
    LET a == Chars(gstin1)
        b == Chars(gstin2)
    IN  /\ Len(a) >= 10
        /\ Len(b) >= 10
        /\ SubSeq(a, 1, 10) = SubSeq(b, 1, 10)
        /\ a # b

\* Group g and reference row r (with their keys and amounts) pass the key
\* test and the amount rule of one of the Layers 1 to 6.
QualifiesStd(g, r) ==
    \E n \in 1..6 :
        LET join == <<"Inv_Basic", "Inv_Basic", "Inv_Basic", "Inv_Num", "Inv_Last4",
                      "Inv_Basic">>[n]
            tol == IF n = 3 THEN tol_high ELSE tol_std
        IN  /\ g[join] = r[join]
            /\ Len(g[join]) >= 2
            /\ IF n = 6 THEN SharePanOnly(g.Norm_GSTIN, r.Norm_GSTIN)
                              \/ g.Norm_GSTIN = r.Norm_GSTIN
               ELSE g.Norm_GSTIN = r.Norm_GSTIN
            /\ IF n = 1 THEN /\ FLeq(FAbsDiff(g.Taxable, r.Taxable), tol)
                             /\ FLeq(FAbsDiff(g.Tax, r.Tax), tol)
               ELSE FLeq(FAbsDiff(g.Grand_Total, r.Grand_Total), tol)

\* Scenario B: group p and reference row j are on two registrations of one
\* PAN with the same invoice key and the same grand total, and no other
\* reference row qualifies for the group nor any other group for the row.
ScenarioB(p, j) ==
    LET g == cis_grouped[p]
        r == g2b_proc[j]
    IN  /\ SharePanOnly(g.Norm_GSTIN, r.Norm_GSTIN)
        /\ g.Inv_Basic = r.Inv_Basic
        /\ Len(g.Inv_Basic) >= 2
        /\ g.Grand_Total = r.Grand_Total
        /\ \A k \in 1..Len(g2b_proc) : k # j => ~ QualifiesStd(g, g2b_proc[k])
        /\ \A q \in 1..Len(cis_grouped) : q # p => ~ QualifiesStd(cis_grouped[q], r)

PanNote(r) == [part |-> "Note: Matched under different GSTIN", gstin |-> r.Norm_GSTIN]

\* C12 (Scenario B, PAN fallback): a group and a reference row in Scenario B
\* are committed to each other by Layer 6 and by no earlier layer, and the
\* Detailed Remark of the group's records has the note that names the
\* reference row's supplier id.
C12_ScenarioB_Layer6 ==
    pc = "done" =>
        \A p \in 1..Len(cis_grouped), j \in 1..Len(g2b_proc) :
            ScenarioB(p, j) =>
                /\ cis_grouped[p].Matched_Flag
                /\ \E n \in 1..Len(audit_log) :
                        /\ audit_log[n].layer = "Layer 6: PAN Level"
                        /\ audit_log[n].cis_ids = cis_grouped[p].Index_CIS
                        /\ audit_log[n].g2b_ids = <<g2b_proc[j].INDEX>>
                /\ \A i \in 1..Len(cis_final) :
                        cis_grouped[p].Norm_GSTIN = cis_proc[i].Norm_GSTIN
                        /\ cis_grouped[p].Inv_Basic = cis_proc[i].Inv_Basic
                        => /\ cis_final[i].Matching_Status = "Matched"
                           /\ cis_final[i].Match_Category = "Layer 6: PAN Level"
                           /\ cis_final[i].GSTR_2B_Key = <<g2b_proc[j].INDEX>>
                           /\ \E n \in 1..Len(cis_final[i].Detailed_Remark) :
                                   cis_final[i].Detailed_Remark[n] = PanNote(g2b_proc[j])
                /\ g2b_final[j].Matching_Status = "Matched"

\* A finished run on Scenario B where the group has two lines and the
\* reference row another split of the same total, beside a second reference
\* row that does not qualify.
C12_Witness ==
    /\ pc = "done"
    /\ Len(g2b_proc) = 2
    /\ \E p \in 1..Len(cis_grouped), j \in 1..Len(g2b_proc) :
            /\ ScenarioB(p, j)
            /\ Len(cis_grouped[p].Index_CIS) = 2
            /\ cis_grouped[p].Taxable # g2b_proc[j].Taxable
            /\ g2b_proc[j].CIS_Key = cis_grouped[p].Index_CIS

\* ----------------------------------------------------------------- C13
\* Scenario C: one source group of grand total 9000 and two reference rows
\* of its supplier id and invoice key with grand totals 4500 and 4500.
ScenarioC ==
    /\ Len(cis_grouped) = 1
    /\ cis_grouped[1].Grand_Total = Float(900000, 0)
    /\ Len(g2b_proc) = 2
    /\ \A j \in 1..2 : /\ g2b_proc[j].Norm_GSTIN = cis_grouped[1].Norm_GSTIN
                        /\ g2b_proc[j].Inv_Basic = cis_grouped[1].Inv_Basic
                        /\ g2b_proc[j].Grand_Total = Float(450000, 0)

\* Layer 8 made the only commit of the run, one source group to both
\* reference rows with difference 0.
OneToManyCommit ==
    /\ match_stats = << <<"Layer 1: Strict Match", 0>>, <<"Layer 2: Grand Total Match", 0>>,
                        <<"Layer 3: High Tolerance", 0>>, <<"Layer 4: Numeric Only", 0>>,
                        <<"Layer 5: Last 4 Digits", 0>>, <<"Layer 6: PAN Level", 0>>,
                        <<"Layer 7: Fuzzy Match", 0>>, <<"Layer 8: Reverse Clubbing", 1>> >>
    /\ Len(audit_log) = 1
    /\ audit_log[1].layer = "Layer 8: Reverse Clubbing"
    /\ audit_log[1].difference = 0
    /\ audit_log[1].cis_ids = [i \in 1..Len(cis_final) |-> i]
    /\ audit_log[1].g2b_ids = <<g2b_final[1].INDEX, g2b_final[2].INDEX>>
    /\ \A i \in 1..Len(cis_final) :
            /\ cis_final[i].Matching_Status = "Matched"
            /\ cis_final[i].Match_Category = "Layer 8: Reverse Clubbing"
            /\ cis_final[i].GSTR_2B_Key = <<g2b_final[1].INDEX, g2b_final[2].INDEX>>
    /\ \A j \in 1..2 :
            /\ g2b_final[j].Matching_Status = "Matched"
            /\ g2b_final[j].CIS_Key = [i \in 1..Len(cis_final) |-> i]

ScoreOf(g, r) == get_similarity_score(USE_RAPIDFUZZ, g.Inv_Basic, r.Inv_Basic)

\* Reference row r passes the four tests of Layer 7 for group g.
PassesFuzzy(g, r) ==
    /\ r.Matching_Status = "Unmatched"
    /\ r.Norm_GSTIN = g.Norm_GSTIN
    /\ FLeq(FAbsDiff(g.Grand_Total, r.Grand_Total), tol_std)
    /\ ScoreOf(g, r).n > 85 * ScoreOf(g, r).d

\* A commit of Layer 7 is of the scanned group and of the row that passes
\* the four tests with the highest score, the first of them in reference
\* input order when several have it.
C14Step ==
    pc = "fuzzy" /\ audit_log' # audit_log =>
        LET g == cis_grouped[idx]
            e == audit_log'[Len(audit_log')]
        IN  /\ ~ g.Matched_Flag
            /\ e.layer = "Layer 7: Fuzzy Match"
            /\ e.cis_ids = g.Index_CIS
            /\ \E j \in 1..Len(g2b_proc) :
                    /\ e.g2b_ids = <<g2b_proc[j].INDEX>>
                    /\ g2b_proc'[j].Matching_Status = "Matched"
                    /\ PassesFuzzy(g, g2b_proc[j])
                    /\ \A k \in 1..Len(g2b_proc) :
                            PassesFuzzy(g, g2b_proc[k]) =>
                                LET sj == ScoreOf(g, g2b_proc[j])
                                    sk == ScoreOf(g, g2b_proc[k])
                                IN  \/ sk.n * sj.d < sj.n * sk.d
                                    \/ sk.n * sj.d = sj.n * sk.d /\ j <= k

\* C14 (fuzzy layer rule): Layer 7 commits a reference row to a group only
\* if the row is Unmatched, has the group's normalized supplier id, has a
\* grand total within the standard tolerance of the group's and has a
\* similarity score strictly above 85; and the row it commits is the one of
\* the highest score among the rows passing these tests, the first in
\* reference input order among equal scores.
C14_FuzzyRule == [][C14Step]_vars

\* A finished run in which "AB12345" was committed by Layer 7 to "AB123456",
\* the first of two rows of the same score, and "K1234567890123450" is left
\* Unmatched beside the Unmatched row whose key scores exactly 85.
C14_Witness ==
    /\ pc = "done"
    /\ Len(cis_final) = 2 /\ Len(g2b_final) = 3
    /\ cis_final[1].INVOICE = Str(INV_X)
    /\ cis_final[2].INVOICE = Str(INV_L1)
    /\ g2b_final[1].INVOICE = Str(INV_X2)
    /\ g2b_final[2].INVOICE = Str(INV_X3)
    /\ g2b_final[3].INVOICE = Str(INV_L2)
    /\ g2b_proc[1].Norm_GSTIN = g2b_proc[2].Norm_GSTIN
    /\ cis_final[1].Match_Category = "Layer 7: Fuzzy Match"
    /\ cis_final[1].GSTR_2B_Key = <<g2b_final[1].INDEX>>
    /\ g2b_final[2].Matching_Status = "Unmatched"
    /\ FLeq(FAbsDiff(cis_proc[1].Grand_Total, g2b_proc[2].Grand_Total), tol_std)
    /\ cis_final[2].Matching_Status = "Unmatched"
    /\ g2b_final[3].Matching_Status = "Unmatched"
    /\ get_similarity_score(USE_RAPIDFUZZ, cis_proc[2].Inv_Basic, g2b_proc[3].Inv_Basic)
           = [n |-> 3400, d |-> 40]

\* ----------------------------------------------------------------- C15
\* Two keys of one length that differ in exactly one position.
OneSubstitution(a, b) ==
    /\ Len(a) = Len(b)
    /\ Cardinality({k \in 1..Len(a) : a[k] # b[k]}) = 1

\* Source record i and reference record j are a documented typo pair: keys
\* one substituted character apart, one normalized supplier id, grand
\* totals within the standard tolerance.
TypoPair(i, j) ==
    /\ OneSubstitution(Chars(cis_proc[i].Inv_Basic), Chars(g2b_proc[j].Inv_Basic))
    /\ cis_proc[i].Norm_GSTIN = g2b_proc[j].Norm_GSTIN
    /\ FLeq(FAbsDiff(cis_proc[i].Grand_Total, g2b_proc[j].Grand_Total), tol_std)

\* C15 (documented typo matching): when the run has finished, a source
\* record and a reference record whose invoice keys differ by one
\* substituted character ("9855" and "9885"), with the same supplier id and
\* grand totals within the standard tolerance, are not both left Unmatched:
\* Layer 7 has matched the source record.
C15_TypoMatched ==
    pc = "done" =>
        \A i \in 1..Len(cis_final) : \A j \in 1..Len(g2b_final) :
            TypoPair(i, j) /\ g2b_final[j].Matching_Status = "Unmatched" =>
                cis_final[i].Match_Category = FuzzyName

\* A finished run on the one source invoice "9855" and the one reference
\* invoice "9885" of the same supplier and amounts, both left Unmatched.
C15_Witness ==
    /\ pc = "done"
    /\ Len(cis_final) = 1 /\ Len(g2b_final) = 1
    /\ cis_final[1].INVOICE = Str(INV_T1)
    /\ g2b_final[1].INVOICE = Str(INV_T2)
    /\ TypoPair(1, 1)
    /\ cis_final[1].Matching_Status = "Unmatched"
    /\ g2b_final[1].Matching_Status = "Unmatched"
    /\ ScoreInt(get_similarity_score(USE_RAPIDFUZZ, cis_proc[1].Inv_Basic,
                                     g2b_proc[1].Inv_Basic)) = 75

\* ----------------------------------------------------------------- C16
\* The number of audit entries of a layer.
CommitsOf(name) == Cardinality({k \in 1..Len(audit_log) : audit_log[k].layer = name})

\* C16 (layer switches): when the run has finished, it has committed no
\* match in Layer 7 if "Enable Fuzzy Matching" was unchecked and no match in
\* Layer 8 if "Enable Reverse Clubbing" was unchecked.
C16_LayerSwitches ==
    pc = "done" =>
        /\ ~ enable_fuzzy => CommitsOf(FuzzyName) = 0
        /\ ~ enable_reverse => CommitsOf(ReverseName) = 0

\* A finished run started with both checkboxes unchecked that committed
\* one match in Layer 7 and one in Layer 8.
C16_Witness ==
    /\ pc = "done"
    /\ ~ enable_fuzzy
    /\ ~ enable_reverse
    /\ CommitsOf(FuzzyName) = 1
    /\ CommitsOf(ReverseName) = 1

\* ----------------------------------------------------------------- C17
\* The eight layer names, in execution order.
EightLayerNames ==
    << "Layer 1: Strict Match", "Layer 2: Grand Total Match", "Layer 3: High Tolerance",
       "Layer 4: Numeric Only", "Layer 5: Last 4 Digits", "Layer 6: PAN Level",
       "Layer 7: Fuzzy Match", "Layer 8: Reverse Clubbing" >>

\* The source groups whose lines carry the layer's name as match category.
GroupsOf(name) ==
    {g \in 1..Len(cis_grouped) :
        \E i \in 1..Len(cis_proc) :
            /\ \E n \in 1..Len(cis_grouped[g].Index_CIS) :
                    cis_grouped[g].Index_CIS[n] = cis_proc[i].Index_CIS
            /\ cis_proc[i].Match_Category = name}

FlaggedGroups == {g \in 1..Len(cis_grouped) : cis_grouped[g].Matched_Flag}

RECURSIVE CountsFrom(_)
\* The sum of the counts of the statistics from entry k on.
CountsFrom(k) ==
    IF k > Len(match_stats) THEN 0 ELSE match_stats[k][2] + CountsFrom(k + 1)

\* The sum of the counts of the statistics.
CountSum == CountsFrom(1)

LayerNo(name) == CHOOSE k \in 1..Len(EightLayerNames) : EightLayerNames[k] = name

\* The step is a commit: it makes a source record or a reference row
\* Matched, or sets a group's flag.
IsCommit ==
    \/ \E i \in 1..Len(cis_proc) :
            /\ cis_proc[i].Matching_Status = "Unmatched"
            /\ cis_proc'[i].Matching_Status = "Matched"
    \/ \E j \in 1..Len(g2b_proc) :
            /\ g2b_proc[j].Matching_Status = "Unmatched"
            /\ g2b_proc'[j].Matching_Status = "Matched"
    \/ \E g \in 1..Len(cis_grouped) :
            /\ Len(cis_grouped') = Len(cis_grouped)
            /\ ~ cis_grouped[g].Matched_Flag
            /\ cis_grouped'[g].Matched_Flag

\* A step keeps the entries the log has, appends exactly one entry when it
\* is a commit and none otherwise.
C18Step ==
    /\ Len(audit_log') >= Len(audit_log)
    /\ SubSeq(audit_log', 1, Len(audit_log)) = audit_log
    /\ Len(audit_log') = Len(audit_log) + (IF IsCommit THEN 1 ELSE 0)

\* The layer numbers of consecutive entries do not decrease.
LayerOrdered ==
    \A k \in 1..(Len(audit_log) - 1) :
        LayerNo(audit_log[k].layer) <= LayerNo(audit_log[k + 1].layer)

\* C18 (audit log append-only and layer-ordered): every commit appends
\* exactly one entry at the end of the audit log, no step modifies or
\* removes an entry, and the layer numbers of consecutive entries are
\* non-decreasing.
C18_AuditAppendOnly == [][C18Step /\ LayerOrdered']_vars

\* A returned run with two audit entries, of two layers.
C18_Witness ==
    /\ pc = "done"
    /\ Len(audit_log) = 2
    /\ LayerNo(audit_log[1].layer) < LayerNo(audit_log[2].layer)

\* ----------------------------------------------------------------- C19
\* Source record i lists the id of reference record j in 'GSTR 2B Key'.
CisLists(i, j) ==
    \E n \in 1..Len(cis_proc[i].GSTR_2B_Key) : cis_proc[i].GSTR_2B_Key[n] = g2b_proc[j].INDEX

\* Reference record j lists the id of source record i in 'CIS Key'.
G2bLists(j, i) ==
    \E n \in 1..Len(g2b_proc[j].CIS_Key) : g2b_proc[j].CIS_Key[n] = cis_proc[i].Index_CIS

\* C19 (cross-reference consistency): at the end of the run a source
\* record lists a reference id exactly when that reference record lists
\* the source record's id; a source record is Matched exactly when its
\* match category and its cross-reference are non-empty; a reference row is
\* Matched exactly when its cross-reference is non-empty.
C19_CrossReference ==
    pc = "done" =>
        /\ \A i \in 1..Len(cis_proc) : \A j \in 1..Len(g2b_proc) :
                CisLists(i, j) <=> G2bLists(j, i)
        /\ \A i \in 1..Len(cis_proc) :
                cis_proc[i].Matching_Status = "Matched"
                    <=> (cis_proc[i].Match_Category # "" /\ cis_proc[i].GSTR_2B_Key # <<>>)
        /\ \A j \in 1..Len(g2b_proc) :
                g2b_proc[j].Matching_Status = "Matched" <=> g2b_proc[j].CIS_Key # <<>>
        /\ \A i \in 1..Len(cis_final) :
                /\ cis_final[i].GSTR_2B_Key = cis_proc[i].GSTR_2B_Key
                /\ cis_final[i].Matching_Status = cis_proc[i].Matching_Status
        /\ \A j \in 1..Len(g2b_final) :
                /\ g2b_final[j].CIS_Key = g2b_proc[j].CIS_Key
                /\ g2b_final[j].Matching_Status = g2b_proc[j].Matching_Status

\* A returned run in which a group of two source lines was committed to one
\* reference row: both lines list the row, the row lists both lines, and
\* another reference row is left with an empty cross-reference.
C19_Witness ==
    /\ pc = "done"
    /\ Len(cis_final) = 2 /\ Len(g2b_final) = 2
    /\ cis_final[1].GSTR_2B_Key = <<g2b_final[1].INDEX>>
    /\ cis_final[2].GSTR_2B_Key = <<g2b_final[1].INDEX>>
    /\ g2b_final[1].CIS_Key = <<cis_final[1].Index_CIS, cis_final[2].Index_CIS>>
    /\ g2b_final[2].Matching_Status = "Unmatched"
    /\ g2b_final[2].CIS_Key = <<>>

\* ----------------------------------------------------------------- C20
\* Reference row r has the supplier key and the invoice key of group g in
\* standard layer k: the PAN in Layer 6 and the supplier id elsewhere; the
\* numeric key in Layer 4, the last-4 key in Layer 5 and the basic key
\* elsewhere.
SameKeys(k, g, r) ==
    /\ IF k = 6 THEN r.Norm_PAN = g.Norm_PAN ELSE r.Norm_GSTIN = g.Norm_GSTIN
    /\ IF k = 4 THEN r.Inv_Num = g.Inv_Num
       ELSE IF k = 5 THEN r.Inv_Last4 = g.Inv_Last4
       ELSE r.Inv_Basic = g.Inv_Basic

\* The amount rule of standard layer k: taxable value and tax each within
\* the standard tolerance in Layer 1, the grand total within the high
\* tolerance in Layer 3 and within the standard tolerance elsewhere.
AmountRule(k, g, r) ==
    IF k = 1
    THEN /\ FLeq(FAbsDiff(g.Taxable, r.Taxable), tol_std)
         /\ FLeq(FAbsDiff(g.Tax, r.Tax), tol_std)
    ELSE FLeq(FAbsDiff(g.Grand_Total, r.Grand_Total), IF k = 3 THEN tol_high ELSE tol_std)

Qualifies(k, g, r) ==
    r.Matching_Status = "Unmatched" /\ SameKeys(k, g, r) /\ AmountRule(k, g, r)

\* A commit of Layers 1 to 6 is of the first qualifying reference row; the
\* scan then moves to the next group (or the next layer) and leaves every
\* record that was Matched as it was.
C20Step ==
    pc = "layer" /\ audit_log' # audit_log =>
        LET g == cis_grouped[idx]
            e == audit_log'[Len(audit_log')]
        IN  /\ LayerNo(e.layer) = layer
            /\ layer \in 1..6
            /\ \E j \in 1..Len(g2b_proc) :
                    /\ e.g2b_ids = <<g2b_proc[j].INDEX>>
                    /\ Qualifies(layer, g, g2b_proc[j])
                    /\ \A k \in 1..(j - 1) : ~ Qualifies(layer, g, g2b_proc[k])
            /\ \/ layer' = layer /\ idx' = idx + 1
               \/ layer' = layer + 1 /\ idx' = 1 /\ idx = Len(cis_grouped)
            /\ \A i \in 1..Len(cis_proc) :
                    cis_proc[i].Matching_Status = "Matched" => cis_proc'[i] = cis_proc[i]
            /\ \A j \in 1..Len(g2b_proc) :
                    g2b_proc[j].Matching_Status = "Matched" => g2b_proc'[j] = g2b_proc[j]

\* C20 (greedy first candidate): in Layers 1 to 6 the reference row a
\* scanned group commits is the first row, in reference-table input order,
\* among the Unmatched rows with equal supplier key and invoice key that
\* satisfies the layer's amount rule; after the commit the scan is at the
\* next group and no record Matched before is changed.
C20_GreedyFirst == [][C20Step]_vars

\* A returned run in which a source record was committed in Layers 1 to 6
\* to the first of two reference rows of its supplier id and invoice key
\* while the second, whose grand total is closer, is left Unmatched.
C20_Witness ==
    /\ pc = "done"
    /\ Len(g2b_proc) = 2
    /\ \E i \in 1..Len(cis_proc) :
            /\ cis_proc[i].GSTR_2B_Key = <<g2b_proc[1].INDEX>>
            /\ LayerNo(cis_proc[i].Match_Category) \in 1..6
            /\ Len(audit_log) = 1
            /\ g2b_proc[2].Matching_Status = "Unmatched"
            /\ g2b_proc[2].Norm_GSTIN = g2b_proc[1].Norm_GSTIN
            /\ g2b_proc[2].Inv_Basic = g2b_proc[1].Inv_Basic
            /\ g2b_proc[2].Inv_Basic = cis_proc[i].Inv_Basic
            /\ \E g \in 1..Len(cis_grouped) :
                    /\ cis_grouped[g].Matched_Flag
                    /\ Round2(FAbsDiff(cis_grouped[g].Grand_Total, g2b_proc[2].Grand_Total))
                         < audit_log[1].difference

\* ----------------------------------------------------------------- C21
\* The invoice-key variant standard layer k uses, of a group or a row.
KeyVariant(k, r) ==
    IF k = 4 THEN r.Inv_Num ELSE IF k = 5 THEN r.Inv_Last4 ELSE r.Inv_Basic

\* A commit of Layers 1 to 6 is of a group and of a reference row whose key
\* variants of the layer have at least 2 characters.
C21Step ==
    pc = "layer" /\ audit_log' # audit_log =>
        /\ Len(Chars(KeyVariant(layer, cis_grouped[idx]))) >= 2
        /\ \A j \in 1..Len(g2b_proc) :
                g2b_proc'[j].Matching_Status # g2b_proc[j].Matching_Status =>
                    Len(Chars(KeyVariant(layer, g2b_proc[j]))) >= 2

\* C21 (absent invoice key in Layers 1 to 6): a source group whose invoice
\* key variant of the layer (punctuation-stripped in Layers 1, 2, 3 and 6,
\* digits-only in Layer 4, last-4 in Layer 5) is shorter than 2 is never
\* committed by that layer, and a reference row whose key variant is shorter
\* than 2 is never consumed by it.
C21_AbsentKeyStandard == [][C21Step]_vars

\* The run is at the end of Layer 6 with a source group and a reference
\* row of empty invoice keys, one supplier id and equal totals, neither
\* committed.
C21_Witness ==
    /\ pc = "fuzzy"
    /\ audit_log = <<>>
    /\ \E g \in 1..Len(cis_grouped) : \E j \in 1..Len(g2b_proc) :
            /\ cis_grouped[g].Inv_Basic = ""
            /\ g2b_proc[j].Inv_Basic = ""
            /\ cis_grouped[g].Norm_GSTIN = g2b_proc[j].Norm_GSTIN
            /\ cis_grouped[g].Grand_Total = g2b_proc[j].Grand_Total
            /\ ~ cis_grouped[g].Matched_Flag
            /\ g2b_proc[j].Matching_Status = "Unmatched"

C23_AbsentSupplierKey ==
    [][audit_log' # audit_log => Len(Chars(cis_grouped[idx].Norm_GSTIN)) >= 2]_vars

\* A returned run in which the source record "a-1234" without a supplier
\* id was committed by Layer 1 to the reference row "0A/1234" without a
\* supplier id.
C23_Witness ==
    /\ pc = "done"
    /\ \E i \in 1..Len(cis_proc) : \E j \in 1..Len(g2b_proc) :
            /\ cis_proc[i].GSTIN = ""
            /\ cis_proc[i].Norm_GSTIN = ""
            /\ cis_proc[i].INVOICE = Str(INV_A)
            /\ cis_proc[i].Match_Category = "Layer 1: Strict Match"
            /\ cis_proc[i].GSTR_2B_Key = <<g2b_proc[j].INDEX>>
            /\ g2b_proc[j].GSTIN = ""
            /\ g2b_proc[j].INVOICE = Str(INV_A_PUNCT)

\* ----------------------------------------------------------------- C24
\* The states the commit of a step goes through, statement by statement:
\* for Layer 8 the state before line 626 sets the flag, then those of
\* commit_match.
CommitStates ==
    LET e == audit_log'[Len(audit_log')]
        diff == FromHundredths(e.difference)
    IN  IF pc = "reverse"
        THEN <<S>> \o CommitOrder([S EXCEPT !.cis_grouped[idx].Matched_Flag = TRUE],
                                   e.layer, idx, e.g2b_ids, diff, e.detail, TRUE)
        ELSE CommitOrder(S, e.layer, idx, e.g2b_ids, diff, e.detail, FALSE)

\* The states are those of the step: the last has the tables the step ends
\* with.
CommitStatesEnd ==
    LET t == CommitStates[Len(CommitStates)]
    IN  /\ t.audit_log = audit_log'
        /\ t.cis_proc = cis_proc'
        /\ t.g2b_proc = g2b_proc'
        /\ t.cis_grouped = cis_grouped'

\* The audit entry of the commit is in the log of state t.
Logged(t) == Len(t.audit_log) = Len(audit_log) + 1

\* C24 as claimed (audit before mutation): in every commit of every layer
\* the audit entry is appended before the group's matched flag is set,
\* before any reference row is updated and before any source record is
\* updated.
C24_AuditBeforeMutation ==
    [][audit_log' # audit_log =>
            /\ CommitStatesEnd
            /\ \A k \in 1..Len(CommitStates) :
                    \/ Logged(CommitStates[k])
                    \/ /\ CommitStates[k].cis_grouped = cis_grouped
                       /\ CommitStates[k].g2b_proc = g2b_proc
                       /\ CommitStates[k].cis_proc = cis_proc]_vars

\* C24 (audit before the updates of the records): in every commit of every
\* layer the audit entry is appended before any reference row's status or
\* cross-reference is updated and before any source record's status,
\* category, cross-reference or remark is updated; the group's matched flag
\* is set before the audit entry is appended.
C24_AuditBeforeRecordUpdates ==
    [][audit_log' # audit_log =>
            /\ CommitStatesEnd
            /\ \A k \in 1..Len(CommitStates) :
                    /\ \/ Logged(CommitStates[k])
                       \/ /\ CommitStates[k].g2b_proc = g2b_proc
                          /\ CommitStates[k].cis_proc = cis_proc
                    /\ Logged(CommitStates[k]) =>
                            CommitStates[k].cis_grouped[idx].Matched_Flag]_vars

\* A returned run with a commit of Layer 8 and a commit of an earlier
\* layer.
C24_Witness ==
    /\ pc = "done"
    /\ Len(audit_log) = 2
    /\ LayerNo(audit_log[1].layer) < 8
    /\ audit_log[2].layer = ReverseName
    /\ \E j \in 1..Len(g2b_proc) : g2b_proc[j].CIS_Key # <<>>
    /\ \E i \in 1..Len(cis_proc) : cis_proc[i].GSTR_2B_Key # <<>>

\* ----------------------------------------------------------------- C25
\* The positions in cis_proc of the members of group g.
MembersOf(g) ==
    {i \in 1..Len(cis_proc) :
        \E n \in 1..Len(cis_grouped[g].Index_CIS) :
            cis_grouped[g].Index_CIS[n] = cis_proc[i].Index_CIS}

\* Every source record is in exactly one group, the one of its supplier
\* id, entity prefix and invoice key; a group is flagged exactly when all
\* its members are Matched, and the members of a flagged group carry one
\* match category and one list of cross-reference ids.
GroupIntegrity ==
    /\ \A i \in 1..Len(cis_proc) :
            /\ Cardinality({g \in 1..Len(cis_grouped) : i \in MembersOf(g)}) = 1
            /\ \A g \in 1..Len(cis_grouped) :
                    i \in MembersOf(g) <=>
                        /\ cis_grouped[g].Norm_GSTIN = cis_proc[i].Norm_GSTIN
                        /\ cis_grouped[g].Norm_PAN = cis_proc[i].Norm_PAN
                        /\ cis_grouped[g].Inv_Basic = cis_proc[i].Inv_Basic
    /\ \A g \in 1..Len(cis_grouped) :
            /\ MembersOf(g) # {}
            /\ cis_grouped[g].Matched_Flag <=>
                    \A i \in MembersOf(g) : cis_proc[i].Matching_Status = "Matched"
            /\ cis_grouped[g].Matched_Flag =>
                    \A i, k \in MembersOf(g) :
                        /\ cis_proc[i].Match_Category = cis_proc[k].Match_Category
                        /\ cis_proc[i].GSTR_2B_Key = cis_proc[k].GSTR_2B_Key
            /\ ~ cis_grouped[g].Matched_Flag =>
                    \A i \in MembersOf(g) : cis_proc[i].Matching_Status = "Unmatched"

\* No step clears a flag.
FlagKept ==
    \A g \in 1..Len(cis_grouped) :
        cis_grouped[g].Matched_Flag =>
            Len(cis_grouped') = Len(cis_grouped) /\ cis_grouped'[g].Matched_Flag

\* C25 (group integrity): once the groups are made, every source record
\* belongs to exactly one clubbed group; a group's matched flag, once true,
\* is never set back to false; and after every step of a layer and at the
\* end of the run a group's flag is true if and only if all its members are
\* Matched, with one Match Category and the same cross-reference ids.
C25_GroupIntegrity ==
    [][FlagKept /\ (pc' \in {"layer", "fuzzy", "reverse", "finalize", "done"}
                        => GroupIntegrity')]_vars

\* A returned run on one group of two source lines, flagged, both lines
\* Matched under one category and one cross-reference.
C25_Witness ==
    /\ pc = "done"
    /\ Len(cis_grouped) = 1
    /\ MembersOf(1) = {1, 2}
    /\ cis_grouped[1].Matched_Flag
    /\ cis_proc[1].Match_Category # ""
    /\ cis_proc[1].Match_Category = cis_proc[2].Match_Category
    /\ cis_proc[1].GSTR_2B_Key = cis_proc[2].GSTR_2B_Key

\* ----------------------------------------------------------------- C26
\* C26 (Layer 3 only takes what Layer 2 rejected): every commit of Layer 3
\* has a grand-total difference strictly greater than the standard
\* tolerance and at most the high tolerance; and when the high tolerance is
\* at most the standard tolerance, a returned run has no commit of Layer 3.
C26_Layer3TakesRejected ==
    /\ \A n \in 1..Len(audit_log) :
            audit_log[n].layer = "Layer 3: High Tolerance" =>
                /\ audit_log[n].difference > Round2(tol_std)
                /\ audit_log[n].difference <= Round2(tol_high)
    /\ pc = "done" /\ Round2(tol_high) <= Round2(tol_std) =>
            CommitsOf("Layer 3: High Tolerance") = 0

\* A returned run with the standard tolerance 2.00 and the high tolerance
\* 3.00 in which Layer 3 committed "F-77", of 8191.37, to the reference row
\* of 8193.37, with the difference 2.00 recorded.
C26_Witness ==
    /\ pc = "done"
    /\ Round2(tol_std) = 200
    /\ Round2(tol_high) = 300
    /\ \E i \in 1..Len(cis_proc) : \E n \in 1..Len(audit_log) :
            /\ cis_proc[i].INVOICE = Str(INV_F)
            /\ cis_proc[i].Match_Category = "Layer 3: High Tolerance"
            /\ audit_log[n].cis_ids = <<cis_proc[i].Index_CIS>>
            /\ audit_log[n].layer = "Layer 3: High Tolerance"
            /\ audit_log[n].difference = 200

\* ----------------------------------------------------------------- C27
\* A commit of Layer 6 is of a group and a reference row of two supplier
\* ids with one 10-character prefix, and its remark ends with the note
\* naming the reference row's supplier id.
C27Step ==
    pc = "layer" /\ audit_log' # audit_log
        /\ audit_log'[Len(audit_log')].layer = "Layer 6: PAN Level" =>
        LET g == cis_grouped[idx]
            e == audit_log'[Len(audit_log')]
        IN  \E j \in 1..Len(g2b_proc) :
                /\ e.g2b_ids = <<g2b_proc[j].INDEX>>
                /\ g2b_proc[j].Norm_GSTIN # g.Norm_GSTIN
                /\ Chars(g2b_proc[j].Norm_PAN) = Chars(g.Norm_PAN)
                /\ Chars(g.Norm_PAN) = SubSeq(Chars(g.Norm_GSTIN), 1, 10)
                /\ e.detail[Len(e.detail)] =
                        [part |-> "Note: Matched under different GSTIN",
                         gstin |-> g2b_proc[j].Norm_GSTIN]
                /\ \A i \in 1..Len(cis_proc') :
                        cis_proc'[i].Match_Category = "Layer 6: PAN Level" =>
                            \E n \in 1..Len(cis_proc'[i].Detailed_Remark) :
                                cis_proc'[i].Detailed_Remark[n].part
                                    = "Note: Matched under different GSTIN"

\* C27 (every Layer 6 commit is a cross-branch match): in every commit of
\* Layer 6 the group's normalized supplier id differs from the committed
\* reference row's, the two sharing the 10-character prefix, and the
\* Detailed Remark of every Layer 6 match carries the different-supplier-id
\* note.
C27_Layer6CrossBranch == [][C27Step]_vars

\* A returned run in which Layer 6 committed a source record of one
\* registration to a reference row of another registration of the same
\* PAN, the record's Detailed Remark ending with the note.
C27_Witness ==
    /\ pc = "done"
    /\ \E i \in 1..Len(cis_proc) : \E j \in 1..Len(g2b_proc) :
            /\ cis_proc[i].Match_Category = "Layer 6: PAN Level"
            /\ cis_proc[i].GSTR_2B_Key = <<g2b_proc[j].INDEX>>
            /\ g2b_proc[j].Norm_GSTIN # cis_proc[i].Norm_GSTIN
            /\ g2b_proc[j].Norm_PAN = cis_proc[i].Norm_PAN
            /\ cis_proc[i].Detailed_Remark[Len(cis_proc[i].Detailed_Remark)]
                    = [part |-> "Note: Matched under different GSTIN",
                       gstin |-> g2b_proc[j].Norm_GSTIN]

\* ----------------------------------------------------------------- C28
\* The reference rows a commit names.
RowsOf(ids) == { j \in 1..Len(g2b_proc) :
                    \E n \in 1..Len(ids) : ids[n] = g2b_proc[j].INDEX }

\* A commit of Layer 8 of a group whose key has 2 characters or more names
\* two reference rows or more, each Unmatched before the commit and a
\* member of a group made when Layer 8 started, none within the standard
\* tolerance of the group's grand total by itself.
C28Step ==
    pc = "reverse" /\ audit_log' # audit_log
        /\ Len(Chars(cis_grouped[idx].Inv_Basic)) >= 2 =>
        LET g == cis_grouped[idx]
            e == audit_log'[Len(audit_log')]
        IN  /\ Len(e.g2b_ids) >= 2
            /\ Cardinality(RowsOf(e.g2b_ids)) = Len(e.g2b_ids)
            /\ \E k \in 1..Len(g2b_grouped) : g2b_grouped[k].INDEX = e.g2b_ids
            /\ \A j \in RowsOf(e.g2b_ids) :
                    /\ g2b_proc[j].Matching_Status = "Unmatched"
                    /\ UnitsApart(g.Grand_Total, g2b_proc[j].Grand_Total)
                            > Round2(tol_std)

ScanOrders(n) == { f \in [1..n -> 1..n] : \A i, j \in 1..n : f[i] = f[j] => i = j }

\* The state s with its groups in the order `order`.
Reordered(s, order) ==
    [s EXCEPT !.cis_grouped = [n \in 1..Len(s.cis_grouped) |-> s.cis_grouped[order[n]]]]

RECURSIVE ThroughLayer3(_)
\* The run from s to the end of the group loop of Layer 3.
ThroughLayer3(s) ==
    IF s.pc = "layer" /\ s.layer <= 3 THEN ThroughLayer3(StandardIterationStep(s)) ELSE s

\* The commits of Layers 1 to 3 in an audit log: which group, which
\* reference row, which layer.
CommitSet(log) ==
    { << log[n].layer, log[n].cis_ids, log[n].g2b_ids >> :
        n \in { m \in 1..Len(log) : \E k \in 1..3 : log[m].layer = StdLayers[k].name } }

\* The groups whose candidate reference row j is in layer k.
CandidateOf(k, j) ==
    { g \in 1..Len(cis_grouped) : IsCandidate(StdLayers[k], cis_grouped[g], g2b_proc[j]) }

\* C29 (no competition in Layers 1 to 3): in Layers 1, 2 and 3 every
\* reference row is a candidate of at most one source group, and the set
\* of commits made by Layers 1 to 3 (which group is paired with which
\* reference row, and in which layer) is the same for every order in which
\* the groups are scanned.
C29_NoCompetition ==
    /\ pc = "layer" /\ layer <= 3 =>
            \A j \in 1..Len(g2b_proc) : Cardinality(CandidateOf(layer, j)) <= 1
    /\ pc = "layer" /\ layer = 4 /\ idx = 1 =>
            LET grouped == GroupingStep(PreprocessStep(Started(S)))
            IN  \A order \in ScanOrders(Len(cis_grouped)) :
                    CommitSet(ThroughLayer3(Reordered(grouped, order)).audit_log)
                        = CommitSet(audit_log)

\* The end of Layer 3 of a run on two groups, each committed by one of
\* Layers 1 to 3 to a reference row of its own.
C29_Witness ==
    /\ pc = "layer" /\ layer = 4 /\ idx = 1
    /\ Len(cis_grouped) >= 2
    /\ Cardinality(CommitSet(audit_log)) >= 2
    /\ \E a, b \in CommitSet(audit_log) : a[2] # b[2] /\ a[3] # b[3]

\* ----------------------------------------------------------------- C30
\* A commit of Layer 7 is of a group and a reference row of different
\* punctuation-stripped invoice keys, whose similarity score is above 85
\* and below 100.
C30Step ==
    pc = "fuzzy" /\ audit_log' # audit_log =>
        LET g == cis_grouped[idx]
            e == audit_log'[Len(audit_log')]
        IN  /\ e.layer = FuzzyName
            /\ \E j \in 1..Len(g2b_proc) :
                    /\ e.g2b_ids = <<g2b_proc[j].INDEX>>
                    /\ g2b_proc[j].Inv_Basic # g.Inv_Basic
                    /\ ScoreOf(g, g2b_proc[j]).n > 85 * ScoreOf(g, g2b_proc[j]).d
                    /\ ScoreOf(g, g2b_proc[j]).n < 100 * ScoreOf(g, g2b_proc[j]).d

\* C30 (Layer 7 never commits an exact key match): in every commit made by
\* Layer 7 the source group's punctuation-stripped invoice key differs from
\* the committed reference row's, so the similarity score of a Layer 7
\* commit is strictly between 85 and 100.
C30_FuzzyNeverExact == [][C30Step]_vars

\* A returned run in which Layer 7 committed a source record to a
\* reference row of another invoice key, while a reference row of the
\* record's own supplier id and invoice key was in the table.
C30_Witness ==
    /\ pc = "done"
    /\ \E i \in 1..Len(cis_proc) : \E j, k \in 1..Len(g2b_proc) :
            /\ cis_proc[i].Match_Category = FuzzyName
            /\ cis_proc[i].GSTR_2B_Key = <<g2b_proc[j].INDEX>>
            /\ g2b_proc[j].Inv_Basic # cis_proc[i].Inv_Basic
            /\ g2b_proc[k].Inv_Basic = cis_proc[i].Inv_Basic
            /\ g2b_proc[k].Norm_GSTIN = cis_proc[i].Norm_GSTIN

====
